---- MODULE Spec2Model ----
(***************************************************************************)
(* FormFiller (src/src/utilities/encrypt.mjs, "src/utilities/web/          *)
(* formFiller.ts"): the form field classification and synthetic filling    *)
(* engine, as a state machine.                                             *)
(*                                                                         *)
(* A string is a sequence of symbols.  A symbol is one character, or one   *)
(* fixed literal of the source (the three element selectors of             *)
(* detectFormFields, 'form', ':nth-child(' ...), so that                   *)
(* String.prototype.includes is the contiguous-subsequence test it is.     *)
(*                                                                         *)
(* An action is the completion of one awaited element interaction together *)
(* with the synchronous code that runs up to the next awaited interaction: *)
(* JavaScript runs that code without interleaving.                         *)
(***************************************************************************)
EXTENDS Integers, Sequences, FiniteSets, TLC

VARIABLES
    faker,        \* this.faker: the identity of the engine's current generator
    ctorFaker,    \* the generator the constructor installed
    ctorThrew,    \* a constructor call has just thrown (no engine was built by it)
    page,         \* the page: the form's children, the submit button
    domValue,     \* what each child of the form last had applied to it
    call,         \* per flow: the frames of one fillField/fillForm/autoFillForm call
    clean,        \* no call of this engine has thrown since it was constructed
    pdf           \* PdfValidator: the frames of one downloadAndVerifyPdfSize call

vars == <<faker, ctorFaker, ctorThrew, page, domValue, call, clean, pdf>>

\* what the FormFiller works on
fillerVars == <<faker, ctorFaker, ctorThrew, page, domValue, call, clean>>

-----------------------------------------------------------------------------
(* Bounds *)

MaxChildren == 3      \* children of the form
MaxFields == 3        \* configs in a fillForm list
MaxMaxElements == 2   \* largest maxElements passed to autoFillForm
MaxBytes == 3         \* largest size of a downloaded file

Slots == {1, 2}       \* flows that may hold a call of the one engine

-----------------------------------------------------------------------------
(* Strings *)

\* String.prototype.includes
Includes(s, sub) ==
    \E i \in 0..(Len(s) - Len(sub)) : SubSeq(s, i + 1, i + Len(sub)) = sub

Digit == <<"0", "1", "2", "3", "4", "5", "6", "7", "8", "9">>

\* a template literal's ${n} for a non-negative integer
RECURSIVE NumStr(_)
NumStr(n) ==
    IF n < 10 THEN <<Digit[n + 1]>>
    ELSE NumStr(n \div 10) \o <<Digit[(n % 10) + 1]>>

Upper == <<"A", "B", "C", "D", "E", "F", "G", "H", "I", "J", "K", "L", "M",
           "N", "O", "P", "Q", "R", "S", "T", "U", "V", "W", "X", "Y", "Z">>
LowerCase == <<"a", "b", "c", "d", "e", "f", "g", "h", "i", "j", "k", "l", "m",
               "n", "o", "p", "q", "r", "s", "t", "u", "v", "w", "x", "y", "z">>

\* String.prototype.toLowerCase
toLowerCase(s) ==
    [i \in 1..Len(s) |->
        IF \E j \in 1..26 : Upper[j] = s[i]
        THEN LowerCase[CHOOSE j \in 1..26 : Upper[j] = s[i]]
        ELSE s[i]]

-----------------------------------------------------------------------------
(* Classifier *)

\* FormFiller.fieldTypeMappings, in the order Object.entries iterates it
fieldTypeMappings == <<
    << <<"t", "e", "x", "t">>, "text">>,
    << <<"e", "m", "a", "i", "l">>, "email">>,
    << <<"p", "a", "s", "s", "w", "o", "r", "d">>, "password">>,
    << <<"n", "u", "m", "b", "e", "r">>, "number">>,
    << <<"d", "a", "t", "e">>, "date">>,
    << <<"c", "h", "e", "c", "k", "b", "o", "x">>, "checkbox">>,
    << <<"r", "a", "d", "i", "o">>, "radio">>,
    << <<"f", "i", "l", "e">>, "file">>,
    << <<"u", "r", "l">>, "url">>,
    << <<"n", "a", "m", "e">>, "name">>,
    << <<"f", "i", "r", "s", "t">>, "name">>,
    << <<"f", "i", "r", "s", "t", "n", "a", "m", "e">>, "name">>,
    << <<"f", "i", "r", "s", "t", "-", "n", "a", "m", "e">>, "name">>,
    << <<"f", "i", "r", "s", "t", "_", "n", "a", "m", "e">>, "name">>,
    << <<"l", "a", "s", "t">>, "name">>,
    << <<"l", "a", "s", "t", "n", "a", "m", "e">>, "name">>,
    << <<"l", "a", "s", "t", "-", "n", "a", "m", "e">>, "name">>,
    << <<"l", "a", "s", "t", "_", "n", "a", "m", "e">>, "name">>,
    << <<"f", "u", "l", "l", "n", "a", "m", "e">>, "name">>,
    << <<"f", "u", "l", "l", "-", "n", "a", "m", "e">>, "name">>,
    << <<"f", "u", "l", "l", "_", "n", "a", "m", "e">>, "name">>,
    << <<"e", "-", "m", "a", "i", "l">>, "email">>,
    << <<"m", "a", "i", "l">>, "email">>,
    << <<"p", "a", "s", "s">>, "password">>,
    << <<"p", "w", "d">>, "password">>,
    << <<"p", "h", "o", "n", "e">>, "phone">>,
    << <<"t", "e", "l", "e", "p", "h", "o", "n", "e">>, "phone">>,
    << <<"t", "e", "l">>, "phone">>,
    << <<"m", "o", "b", "i", "l", "e">>, "phone">>,
    << <<"c", "e", "l", "l">>, "phone">>,
    << <<"a", "d", "d", "r", "e", "s", "s">>, "address">>,
    << <<"s", "t", "r", "e", "e", "t">>, "address">>,
    << <<"s", "t", "r", "e", "e", "t", "-", "a", "d", "d", "r", "e", "s", "s">>, "address">>,
    << <<"s", "t", "r", "e", "e", "t", "_", "a", "d", "d", "r", "e", "s", "s">>, "address">>,
    << <<"a", "d", "d", "r">>, "address">>,
    << <<"l", "i", "n", "e", "1">>, "address">>,
    << <<"a", "d", "d", "r", "e", "s", "s", "-", "l", "i", "n", "e", "1">>, "address">>,
    << <<"a", "d", "d", "r", "e", "s", "s", "_", "l", "i", "n", "e", "1">>, "address">>,
    << <<"c", "i", "t", "y">>, "city">>,
    << <<"t", "o", "w", "n">>, "city">>,
    << <<"l", "o", "c", "a", "l", "i", "t", "y">>, "city">>,
    << <<"s", "t", "a", "t", "e">>, "state">>,
    << <<"p", "r", "o", "v", "i", "n", "c", "e">>, "state">>,
    << <<"r", "e", "g", "i", "o", "n">>, "state">>,
    << <<"c", "o", "u", "n", "t", "y">>, "state">>,
    << <<"z", "i", "p">>, "zip">>,
    << <<"z", "i", "p", "c", "o", "d", "e">>, "zip">>,
    << <<"z", "i", "p", "-", "c", "o", "d", "e">>, "zip">>,
    << <<"z", "i", "p", "_", "c", "o", "d", "e">>, "zip">>,
    << <<"p", "o", "s", "t", "a", "l">>, "zip">>,
    << <<"p", "o", "s", "t", "a", "l", "c", "o", "d", "e">>, "zip">>,
    << <<"p", "o", "s", "t", "a", "l", "-", "c", "o", "d", "e">>, "zip">>,
    << <<"p", "o", "s", "t", "a", "l", "_", "c", "o", "d", "e">>, "zip">>,
    << <<"c", "o", "u", "n", "t", "r", "y">>, "country">>,
    << <<"n", "a", "t", "i", "o", "n">>, "country">>,
    << <<"c", "o", "m", "p", "a", "n", "y">>, "company">>,
    << <<"o", "r", "g", "a", "n", "i", "z", "a", "t", "i", "o", "n">>, "company">>,
    << <<"o", "r", "g", "a", "n", "i", "s", "a", "t", "i", "o", "n">>, "company">>,
    << <<"b", "u", "s", "i", "n", "e", "s", "s">>, "company">>,
    << <<"f", "i", "r", "m">>, "company">>,
    << <<"w", "e", "b", "s", "i", "t", "e">>, "url">>,
    << <<"w", "e", "b", "-", "s", "i", "t", "e">>, "url">>,
    << <<"w", "e", "b", "_", "s", "i", "t", "e">>, "url">>,
    << <<"h", "o", "m", "e", "p", "a", "g", "e">>, "url">>,
    << <<"h", "o", "m", "e", "-", "p", "a", "g", "e">>, "url">>,
    << <<"h", "o", "m", "e", "_", "p", "a", "g", "e">>, "url">>,
    << <<"w", "e", "b">>, "url">>,
    << <<"c", "o", "m", "m", "e", "n", "t">>, "textarea">>,
    << <<"m", "e", "s", "s", "a", "g", "e">>, "textarea">>,
    << <<"d", "e", "s", "c", "r", "i", "p", "t", "i", "o", "n">>, "textarea">>,
    << <<"m", "e", "m", "o">>, "textarea">>,
    << <<"n", "o", "t", "e", "s">>, "textarea">>
>>

\* pattern.toLowerCase() of every key of the table
patternLower == [k \in 1..Len(fieldTypeMappings) |-> toLowerCase(fieldTypeMappings[k][1])]

\* the entries of the table whose key the signal contains, by table position
MatchingEntries(signal) ==
    IF signal = <<>> THEN {}
    ELSE LET lower == toLowerCase(signal)
         IN  {k \in 1..Len(fieldTypeMappings) : Includes(lower, patternLower[k])}

\* fieldTypeMappings is an object literal: indexing it also finds what it
\* inherits from Object.prototype.  Of those property names, these are the
\* ones toLowerCase can produce; the values are no FieldType (the Object
\* constructor, Object.prototype) and are truthy
InheritedKeys ==
    {<<"c", "o", "n", "s", "t", "r", "u", "c", "t", "o", "r">>,
     <<"_", "_", "p", "r", "o", "t", "o", "_", "_">>}

OwnKey(s) == \E k \in 1..Len(fieldTypeMappings) : fieldTypeMappings[k][1] = s

\* fieldTypeMappings[s] is truthy
HasKey(s) == OwnKey(s) \/ s \in InheritedKeys

\* fieldTypeMappings[s]
Lookup(s) ==
    IF OwnKey(s)
    THEN fieldTypeMappings[CHOOSE k \in 1..Len(fieldTypeMappings) :
                               fieldTypeMappings[k][1] = s][2]
    ELSE IF s = <<"c", "o", "n", "s", "t", "r", "u", "c", "t", "o", "r">> THEN "Object" ELSE "Object.prototype"

\* the for..of loop over Object.entries: the entry it returns at, the first
\* that matches
FirstMatchEntry(signal) ==
    LET m == MatchingEntries(signal) IN CHOOSE k \in m : \A j \in m : k <= j

\* String.prototype.indexOf, for a sub that s includes
IndexOf(s, sub) ==
    CHOOSE i \in 0..(Len(s) - Len(sub)) :
        /\ SubSeq(s, i + 1, i + Len(sub)) = sub
        /\ \A j \in 0..(i - 1) : SubSeq(s, j + 1, j + Len(sub)) # sub

\* variant: the key that occurs first in the signal decides
FirstMatch_Leftmost(signal) ==
    LET m == MatchingEntries(signal)
        lower == toLowerCase(signal)
        at(k) == IndexOf(lower, patternLower[k])
    IN  fieldTypeMappings[CHOOSE k \in m :
                              \A j \in m : at(k) < at(j) \/ (at(k) = at(j) /\ k <= j)][2]

\* the for..of loop over Object.entries: the fieldType it returns
FirstMatch(signal) == fieldTypeMappings[FirstMatchEntry(signal)][2]

\* variant: the declared type is looked up before the tag is tested
determineFieldType_TypeFirst(tagName, inputType, name, id, placeholder, ariaLabel, label) ==
    IF inputType # <<>> /\ HasKey(toLowerCase(inputType))
    THEN Lookup(toLowerCase(inputType))
    ELSE IF tagName = <<"select">> THEN "select"
    ELSE IF tagName = <<"textarea">> THEN "textarea"
    ELSE IF MatchingEntries(name) # {} THEN FirstMatch(name)
    ELSE IF MatchingEntries(id) # {} THEN FirstMatch(id)
    ELSE IF MatchingEntries(placeholder) # {} THEN FirstMatch(placeholder)
    ELSE IF MatchingEntries(ariaLabel) # {} THEN FirstMatch(ariaLabel)
    ELSE IF MatchingEntries(label) # {} THEN FirstMatch(label)
    ELSE "text"

\* variant: the name is scanned before the declared type is looked up
determineFieldType_NameFirst(tagName, inputType, name, id, placeholder, ariaLabel, label) ==
    IF tagName = <<"select">> THEN "select"
    ELSE IF tagName = <<"textarea">> THEN "textarea"
    ELSE IF MatchingEntries(name) # {} THEN FirstMatch(name)
    ELSE IF inputType # <<>> /\ HasKey(toLowerCase(inputType))
         THEN Lookup(toLowerCase(inputType))
    ELSE IF MatchingEntries(id) # {} THEN FirstMatch(id)
    ELSE IF MatchingEntries(placeholder) # {} THEN FirstMatch(placeholder)
    ELSE IF MatchingEntries(ariaLabel) # {} THEN FirstMatch(ariaLabel)
    ELSE IF MatchingEntries(label) # {} THEN FirstMatch(label)
    ELSE "text"

\* determineFieldType, after getTagName has answered tagName
determineFieldType(tagName, inputType, name, id, placeholder, ariaLabel, label) ==
    IF tagName = <<"select">> THEN "select"
    ELSE IF tagName = <<"textarea">> THEN "textarea"
    ELSE IF inputType # <<>> /\ HasKey(toLowerCase(inputType))
         THEN Lookup(toLowerCase(inputType))
    ELSE IF MatchingEntries(name) # {} THEN FirstMatch(name)
    ELSE IF MatchingEntries(id) # {} THEN FirstMatch(id)
    ELSE IF MatchingEntries(placeholder) # {} THEN FirstMatch(placeholder)
    ELSE IF MatchingEntries(ariaLabel) # {} THEN FirstMatch(ariaLabel)
    ELSE IF MatchingEntries(label) # {} THEN FirstMatch(label)
    ELSE "text"

-----------------------------------------------------------------------------
(* The page: one form, whose children are page.children in document order *)

\* an element: its tag, its attributes as written (<<>>: absent or empty), and
\* for a select its options
El(tag, type, id, name) ==
    [tag |-> tag, type |-> type, id |-> id, name |-> name,
     placeholder |-> <<>>, ariaLabel |-> <<>>, label |-> <<>>, options |-> <<>>]

T_hidden == <<"h", "i", "d", "d", "e", "n">>
T_submit == <<"s", "u", "b", "m", "i", "t">>
T_button == <<"b", "u", "t", "t", "o", "n">>
T_reset == <<"r", "e", "s", "e", "t">>
T_text == <<"t", "e", "x", "t">>
T_checkbox == <<"c", "h", "e", "c", "k", "b", "o", "x">>
T_radio == <<"r", "a", "d", "i", "o">>
T_file == <<"f", "i", "l", "e">>

\* the element selectors of detectFormFields, each one symbol
InputSelector ==
    <<"input:not([type=\"hidden\"]):not([type=\"submit\"]):not([type=\"button\"]):not([type=\"reset\"])">>
SelectSelector == <<"select">>
TextareaSelector == <<"textarea">>

\* variant: the dropdowns scanned before the inputs
fieldSelectors_SelectFirst == <<SelectSelector, InputSelector, TextareaSelector>>

fieldSelectors == <<InputSelector, SelectSelector, TextareaSelector>>

\* CSS: the element matches the element selector
MatchesKind(elementSelector, el) ==
    CASE elementSelector = InputSelector ->
            /\ el.tag = <<"input">>
            /\ toLowerCase(el.type) \notin {T_hidden, T_submit, T_button, T_reset}
      [] elementSelector = SelectSelector -> el.tag = <<"select">>
      [] elementSelector = TextareaSelector -> el.tag = <<"textarea">>
      [] OTHER -> FALSE

\* `#${id}`
IdSelector(id) == <<"#">> \o id
\* `${elementSelector}[name="${name}"]`
NameSelector(elementSelector, name) ==
    elementSelector \o <<"[name=\"">> \o name \o <<"\"]">>
\* `${formSelector} ${elementSelector}:nth-child(${i + 1})`, i counted from 0
NthChildSelector(formSelector, elementSelector, i) ==
    formSelector \o <<" ">> \o elementSelector \o <<":nth-child(">> \o NumStr(i + 1) \o <<")">>

\* page.locator(`${formSelector} ${elementSelector}`): the children of the form
\* that match the element selector, in document order
MatchesOfKind(pg, formSelector, elementSelector) ==
    IF formSelector # <<"form">> THEN <<>>
    ELSE SelectSeq([j \in 1..Len(pg.children) |-> j],
                   LAMBDA j : MatchesKind(elementSelector, pg.children[j]))

\* page.locator(selector): the children a selector designates.  CSS for the
\* shapes of selector that occur: #id, a tag name, kind[name="n"], and
\* form kind:nth-child(p), which asks for the p-th child of its parent
Resolve(pg, selector) ==
    {j \in 1..Len(pg.children) :
        LET el == pg.children[j] IN
        \/ el.id # <<>> /\ selector = IdSelector(el.id)
        \/ selector = el.tag
        \/ \E k \in 1..Len(fieldSelectors) :
              /\ MatchesKind(fieldSelectors[k], el)
              /\ \/ el.name # <<>> /\ selector = NameSelector(fieldSelectors[k], el.name)
                 \/ selector = NthChildSelector(<<"form">>, fieldSelectors[k], j - 1)}

-----------------------------------------------------------------------------
(* Values and field configurations *)

\* An optional property is the empty set (undefined) or a singleton.
Value(opt) == CHOOSE v \in opt : TRUE

\* JavaScript truthiness of an optional string property
Truthy(opt) == opt # {} /\ opt # {""}

\* a value a field is filled with: string | boolean | number
StringValue(s) == [t |-> "string", s |-> s]
BooleanValue(b) == [t |-> "boolean", b |-> b]
NumberValue(n) == [t |-> "number", n |-> n]
NoValue == [t |-> "undefined"]

\* String(value)
String(value) ==
    CASE value.t = "string" -> value.s
      [] value.t = "boolean" -> IF value.b THEN <<"t", "r", "u", "e">> ELSE <<"f", "a", "l", "s", "e">>
      [] value.t = "number" ->
            IF value.n < 0 THEN <<"-">> \o NumStr(0 - value.n) ELSE NumStr(value.n)
      [] OTHER -> <<"u", "n", "d", "e", "f", "i", "n", "e", "d">>

\* the selector of a FieldConfig: a string, or a Locator (built from a string
\* by page.locator somewhere else)
StringSelector(s) == [isString |-> TRUE, sel |-> s]
Locator(s) == [isString |-> FALSE, sel |-> s]

\* interface FieldConfig; absent optional properties are {} (FALSE, <<>>)
FieldConfig(selector, type) ==
    [selector |-> selector, type |-> type, valueGenerator |-> {},
     min |-> {}, max |-> {}, options |-> <<>>,
     clickAfterFill |-> FALSE, pressEnterAfterFill |-> FALSE,
     blurAfterFill |-> FALSE, filePath |-> <<>>, locale |-> {}]

\* variant: the NUMBER case passes no min to faker.number.int
SwitchValues_NoMin(fieldConfig) ==
    LET type == fieldConfig.type IN
    CASE type = "number" ->
            {NumberValue(n) :
                n \in 0..(IF fieldConfig.max = {} THEN 100 ELSE Value(fieldConfig.max))}
      [] type = "select" ->
            {StringValue(fieldConfig.options[n]) : n \in 1..Len(fieldConfig.options)}
      [] type \in {"checkbox", "radio"} -> {BooleanValue(TRUE), BooleanValue(FALSE)}
      [] type \in {"text", "email", "password", "phone", "date", "textarea", "name",
                   "address", "city", "state", "zip", "country", "company", "url"} ->
            {StringValue(<<"faker", type>>)}
      [] OTHER -> {StringValue(<<"faker", "word">>)}

\* generateValue's switch: the values the case of fieldConfig.type can return
\* without asking the page (the SELECT case with no options asks the page).
\* What a synthetic-data category hands back is kept as the category's name.
SwitchValues(fieldConfig) ==
    LET type == fieldConfig.type IN
    CASE type = "number" ->
            {NumberValue(n) :
                n \in (IF fieldConfig.min = {} THEN 1 ELSE Value(fieldConfig.min))
                      ..(IF fieldConfig.max = {} THEN 100 ELSE Value(fieldConfig.max))}
      [] type = "select" ->
            {StringValue(fieldConfig.options[n]) : n \in 1..Len(fieldConfig.options)}
      [] type \in {"checkbox", "radio"} -> {BooleanValue(TRUE), BooleanValue(FALSE)}
      [] type \in {"text", "email", "password", "phone", "date", "textarea", "name",
                   "address", "city", "state", "zip", "country", "company", "url"} ->
            {StringValue(<<"faker", type>>)}
      [] OTHER -> {StringValue(<<"faker", "word">>)}

\* generateValue up to its first await: "throws", "ask" (getRandomSelectOption
\* has to evaluate on the page) or "value"
GenerateKind(fieldConfig) ==
    IF fieldConfig.valueGenerator # {}
    THEN IF Value(fieldConfig.valueGenerator).throws THEN "throws" ELSE "value"
    ELSE IF fieldConfig.type = "select" /\ Len(fieldConfig.options) = 0 THEN "ask"
    ELSE IF SwitchValues(fieldConfig) = {} THEN "throws"
    ELSE "value"

\* variant: the switch on the type runs although there is a valueGenerator
GenerateValues_SwitchFirst(fieldConfig) ==
    IF GenerateKind(fieldConfig) # "value" THEN {NoValue}
    ELSE SwitchValues(fieldConfig)

\* the values generateValue can return when it returns without asking the page
GenerateValues(fieldConfig) ==
    IF GenerateKind(fieldConfig) # "value" THEN {NoValue}
    ELSE IF fieldConfig.valueGenerator # {}
         THEN {Value(fieldConfig.valueGenerator).value}
    ELSE SwitchValues(fieldConfig)

\* getRandomSelectOption: the option values the evaluate call hands back
LiveOptions(el) ==
    IF el.tag = <<"select">>
    THEN {el.options[n].value : n \in {m \in 1..Len(el.options) :
              el.options[m].value # <<>> /\ ~el.options[m].disabled}}
    ELSE {}

\* variant: the options are not filtered
RandomSelectOption_Unfiltered(el) ==
    IF el.tag # <<"select">> \/ el.options = <<>> THEN {StringValue(<<>>)}
    ELSE {StringValue(el.options[n].value) : n \in 1..Len(el.options)}

\* getRandomSelectOption's answer: "" if there is no option, else one of them
RandomSelectOption(el) ==
    IF LiveOptions(el) = {} THEN {StringValue(<<>>)}
    ELSE {StringValue(o) : o \in LiveOptions(el)}

\* getTagName
getTagName(el) == el.tag

InputTypes == {T_text, T_checkbox, T_radio, T_file, T_hidden, T_submit, T_button, T_reset,
               <<"e", "m", "a", "i", "l">>, <<"p", "a", "s", "s", "w", "o", "r", "d">>, <<"n", "u", "m", "b", "e", "r">>, <<"d", "a", "t", "e">>, <<"u", "r", "l">>, <<"t", "e", "l">>}

\* getInputType: el.type.toLowerCase() of an input (the type property is "text"
\* for a missing or unknown type attribute), null (here <<>>) for anything else
getInputType(el) ==
    IF el.tag = <<"input">>
    THEN IF toLowerCase(el.type) \in InputTypes THEN toLowerCase(el.type) ELSE T_text
    ELSE <<>>

\* variant: the branch is chosen by the type of the config
ApplyOp_ByConfigType(tagName, inputType, fieldConfig, value) ==
    IF fieldConfig.type = "select"
    THEN IF value.t = "string" THEN "selectOption" ELSE "none"
    ELSE IF fieldConfig.type \in {"checkbox", "radio"}
    THEN IF value = BooleanValue(TRUE) THEN "check"
         ELSE IF value = BooleanValue(FALSE) THEN "uncheck"
         ELSE "none"
    ELSE IF fieldConfig.type = "file" /\ fieldConfig.filePath # <<>>
    THEN "setInputFiles"
    ELSE "fill"

\* applyValueToField's if/else chain: the interaction it awaits for the value,
\* "none" where a branch is entered and does nothing
ApplyOp(tagName, inputType, fieldConfig, value) ==
    IF tagName = <<"select">>
    THEN IF value.t = "string" THEN "selectOption" ELSE "none"
    ELSE IF tagName = <<"input">> /\ (inputType = T_checkbox \/ inputType = T_radio)
    THEN IF value = BooleanValue(TRUE) THEN "check"
         ELSE IF value = BooleanValue(FALSE) THEN "uncheck"
         ELSE "none"
    ELSE IF tagName = <<"input">> /\ inputType = T_file /\ fieldConfig.filePath # <<>>
    THEN "setInputFiles"
    ELSE "fill"

\* the argument of that interaction
ApplyArg(op, fieldConfig, value) ==
    CASE op = "selectOption" -> value.s
      [] op = "setInputFiles" -> fieldConfig.filePath
      [] op = "fill" -> String(value)
      [] OTHER -> <<>>

-----------------------------------------------------------------------------
(* Calls *)

\* interface AutoFillOptions, after the destructuring defaults of autoFillForm
\* except maxElements and locale, which stay optional
AutoFillOptions(excludeSelectors, customFields, submitAfterFill, locale, maxElements) ==
    [formSelector |-> <<"form">>, excludeSelectors |-> excludeSelectors,
     customFields |-> customFields, submitAfterFill |-> submitAfterFill,
     submitSelector |-> <<"button[type='submit']">>, locale |-> locale,
     maxElements |-> maxElements]

\* maxElements = 50 in the destructuring of autoFillForm
MaxElementsOf(options) ==
    IF options.maxElements = {} THEN 50 ELSE Value(options.maxElements)

\* the frames of one call: autoFillForm's (options, autoOrig), detectFormFields'
\* (k, i, count, selector, formFields), fillForm's (formFields, idx,
\* fieldValues), fillField's (fieldOrig, value, tagName, inputType); pre is the
\* generator that was current when the call was made, log the element
\* interactions the call has awaited, result what it returned, during the
\* calls that were suspended when this one was made, after the calls that
\* had finished when this one did, and generatorCalls the number of times the
\* call has invoked a config's valueGenerator
IdleCall ==
    [op |-> "none", pc |-> "idle", err |-> "none", pre |-> 0,
     options |-> AutoFillOptions(<<>>, <<>>, FALSE, {}, {}), autoOrig |-> 0,
     k |-> 1, i |-> 0, count |-> 0, selector |-> <<>>,
     formFields |-> <<>>, idx |-> 0, fieldValues |-> <<>>,
     fieldOrig |-> 0, value |-> NoValue, tagName |-> <<>>, inputType |-> <<>>,
     result |-> {}, log |-> <<>>, sources |-> <<>>, values |-> <<>>,
     during |-> {}, after |-> {}, generatorCalls |-> 0]

Active(s) == s.pc \notin {"idle", "returned", "thrown"}

\* the generators some frame (or the engine) still refers to
RefsOf(s) == {s.pre, s.autoOrig, s.fieldOrig}

Fresh(live) == CHOOSE n \in 0..Cardinality(live) : n \notin live

\* new Faker({ locale }): a generator that is none of the live ones
NewFaker(x) ==
    LET n == Fresh(x.live) IN [x EXCEPT !.f = n, !.live = @ \cup {n}]

\* variant: an unknown locale falls back to "en"
getLocaleDefinition_Fallback(locale) == "en"

\* getLocaleDefinition: the definition, or "throws" (Unsupported locale)
getLocaleDefinition(locale) == IF locale = "en" THEN "en" ELSE "throws"

Await(x, pc) == [x EXCEPT !.c.pc = pc]
\* variant: the rejection is caught and the interaction awaited again
Throw_Swallowed(x, err) == x

Throw(x, err) == [x EXCEPT !.c.pc = "thrown", !.c.err = err]
Return(x, result) == [x EXCEPT !.c.pc = "returned", !.c.result = {result}]

\* the config fillField is working on
CurrentField(s) == s.formFields[s.idx + 1]

\* variant: the value is not stored
Put_Dropped(fieldValues, selectorKey, value) == fieldValues

\* fieldValues[selectorKey] = value
Put(fieldValues, selectorKey, value) ==
    [key \in DOMAIN fieldValues \cup {selectorKey} |->
        IF key = selectorKey THEN value ELSE fieldValues[key]]

\* fillField, lines 247-266, up to the first awaited interaction; v is the
\* value generateValue returns if it returns one without asking the page
BeginField(x, v) ==
    LET fieldConfig == CurrentField(x.c)
        saved == [x EXCEPT !.c.fieldOrig = x.f, !.c.value = NoValue,
                           !.c.tagName = <<>>, !.c.inputType = <<>>]
        installed == IF Truthy(fieldConfig.locale) THEN NewFaker(saved) ELSE saved
        generating == IF fieldConfig.valueGenerator # {}
                      THEN [installed EXCEPT !.c.generatorCalls = @ + 1]
                      ELSE installed
    IN  IF Truthy(fieldConfig.locale)
           /\ getLocaleDefinition(Value(fieldConfig.locale)) = "throws"
        THEN Throw(saved, "Unsupported locale")
        ELSE CASE GenerateKind(fieldConfig) = "throws" -> Throw(generating, "generation")
               [] GenerateKind(fieldConfig) = "ask" -> Await(generating, "options")
               [] OTHER -> Await([generating EXCEPT !.c.value = v], "tag")

\* variant: autoFillForm returns without putting originalFaker back
AutoReturn_NoRestore(x) == Return(x, x.c.fieldValues)

\* autoFillForm, lines 369-374
AutoReturn(x) ==
    LET restored == IF Truthy(x.c.options.locale)
                    THEN [x EXCEPT !.f = x.c.autoOrig] ELSE x
    IN  Return(restored, x.c.fieldValues)

\* variant: fillForm rejects a list without configs
EndForm_RejectsEmpty(x) ==
    IF x.c.op = "fillForm"
    THEN IF x.c.formFields = <<>> THEN Throw(x, "empty") ELSE Return(x, x.c.fieldValues)
    ELSE IF x.c.options.submitAfterFill THEN Await(x, "visible")
    ELSE AutoReturn(x)

\* after fillForm's loop: fillForm returns; autoFillForm goes on to submit
EndForm(x) ==
    IF x.c.op = "fillForm" THEN Return(x, x.c.fieldValues)
    ELSE IF x.c.options.submitAfterFill THEN Await(x, "visible")
    ELSE AutoReturn(x)

\* fillForm's for..of: "begin" stands for the call of fillField, which the
\* action makes (it draws the generated value)
LoopForm(x) ==
    IF x.c.idx < Len(x.c.formFields) THEN Await(x, "begin") ELSE EndForm(x)

\* variant: the synthetic key counts from one
SelectorKey_OffByOne(fieldConfig, fieldValues) ==
    IF fieldConfig.selector.isString
    THEN fieldConfig.selector.sel
    ELSE <<"field-">> \o NumStr(Cardinality(DOMAIN fieldValues) + 1)

\* variant: the synthetic key is 'field-0' whatever the map holds
SelectorKey_Constant(fieldConfig, fieldValues) ==
    IF fieldConfig.selector.isString
    THEN fieldConfig.selector.sel
    ELSE <<"field-">> \o NumStr(0)

\* fillForm, lines 287-290
SelectorKey(fieldConfig, fieldValues) ==
    IF fieldConfig.selector.isString
    THEN fieldConfig.selector.sel
    ELSE <<"field-">> \o NumStr(Cardinality(DOMAIN fieldValues))

\* fillField, lines 268-273, and what its caller does with the value
FinishField(x) ==
    LET fieldConfig == CurrentField(x.c)
        restored == IF Truthy(fieldConfig.locale)
                    THEN [x EXCEPT !.f = x.c.fieldOrig] ELSE x
        returned == [restored EXCEPT !.c.values = Append(@, x.c.value)]
    IN  IF x.c.op = "fillField" THEN Return(returned, x.c.value)
        ELSE LoopForm([returned EXCEPT
                 !.c.fieldValues =
                     Put(@, SelectorKey(fieldConfig, x.c.fieldValues), x.c.value),
                 !.c.idx = @ + 1])

\* applyValueToField, lines 681-692: the post-actions after stage `done`
PostActions == <<"click", "press", "blur">>
\* variant: Enter and blur are nested in the click's if
Wanted_Nested(fieldConfig, n) ==
    CASE n = 1 -> fieldConfig.clickAfterFill
      [] n = 2 -> fieldConfig.clickAfterFill /\ fieldConfig.pressEnterAfterFill
      [] OTHER -> fieldConfig.clickAfterFill /\ fieldConfig.blurAfterFill

Wanted(fieldConfig, n) ==
    CASE n = 1 -> fieldConfig.clickAfterFill
      [] n = 2 -> fieldConfig.pressEnterAfterFill
      [] OTHER -> fieldConfig.blurAfterFill

AfterApply(x, done) ==
    LET todo == {n \in (done + 1)..3 : Wanted(CurrentField(x.c), n)}
    IN  IF todo = {} THEN FinishField(x)
        ELSE Await(x, PostActions[CHOOSE n \in todo : \A m \in todo : n <= m])

\* variant: the detected properties win over the override's
Spread_BaseWins(base, override) ==
    [p \in DOMAIN base \cup DOMAIN override |->
        IF p \in DOMAIN base THEN base[p] ELSE override[p]]

\* { ...formFields[fieldIndex], ...customFields[selector] }
Spread(base, override) ==
    [p \in DOMAIN base \cup DOMAIN override |->
        IF p \in DOMAIN override THEN override[p] ELSE base[p]]

\* autoFillForm, lines 333-343: findIndex takes the first descriptor with the
\* selector
MergeCustomFields(formFields, customFields) ==
    [n \in 1..Len(formFields) |->
        LET selector == formFields[n].selector.sel IN
        IF /\ selector \in DOMAIN customFields
           /\ \A m \in 1..(n - 1) : formFields[m].selector.sel # selector
        THEN Spread(formFields[n], customFields[selector])
        ELSE formFields[n]]

\* autoFillForm, lines 332-346: detectFormFields has returned
EndScan(x) ==
    LoopForm([x EXCEPT
        !.c.formFields = MergeCustomFields(@, x.c.options.customFields),
        !.c.fieldValues = <<>>, !.c.idx = 0])

\* detectFormFields, lines 399-460: the loops' tests
ScanLoop(x) ==
    IF x.c.i < x.c.count THEN Await(x, "attrs")
    ELSE IF Len(x.c.formFields) >= MaxElementsOf(x.c.options) THEN EndScan(x)
    ELSE IF x.c.k < Len(fieldSelectors) THEN Await([x EXCEPT !.c.k = @ + 1], "count")
    ELSE EndScan(x)

-----------------------------------------------------------------------------
(* Actions *)

\* an awaited interaction, as the call's log keeps it
Entry(op, field, el, arg, ok) ==
    [op |-> op, field |-> field, el |-> el, arg |-> arg, ok |-> ok]

Logged(x, entries) == [x EXCEPT !.c.log = @ \o entries]

\* the machine a flow's synchronous code runs on: its frames, this.faker, and
\* the generators alive
Machine(c) ==
    [c |-> call[c], f |-> faker,
     live |-> {faker, ctorFaker} \cup UNION {RefsOf(call[d]) : d \in Slots}]

\* a call made in slot c starts from fresh frames
Entered(c, op) ==
    [c |-> [IdleCall EXCEPT !.op = op, !.pre = faker], f |-> faker,
     live |-> {faker, ctorFaker} \cup UNION {RefsOf(call[d]) : d \in Slots \ {c}}]

\* the frames with the call's history brought up to date
Stamped(c, s) ==
    [s EXCEPT
        !.during = IF call[c].pc = "idle"
                   THEN {d \in Slots \ {c} : Active(call[d])} ELSE @,
        !.after = IF s.pc \in {"returned", "thrown"} /\ Active(call[c])
                  THEN {d \in Slots \ {c} : call[d].pc \in {"returned", "thrown"}}
                  ELSE @]

Commit(c, x) ==
    /\ call' = [call EXCEPT ![c] = Stamped(c, x.c)]
    /\ faker' = x.f
    /\ clean' = (clean /\ x.c.pc # "thrown")

\* run the synchronous code to the next awaited interaction
Run(c, x) ==
    IF x.c.pc = "begin"
    THEN \E v \in GenerateValues(CurrentField(x.c)) : Commit(c, BeginField(x, v))
    ELSE Commit(c, x)

Untouched == [how |-> "none", arg |-> <<>>]

NoPage == [children |-> <<>>, submitVisible |-> FALSE]

\* the page a call finds: the one in place while another call is in flight,
\* else any page, freshly loaded
Visit(c, pg) ==
    IF \E d \in Slots \ {c} : call[d].pc # "idle"
    THEN pg = page /\ UNCHANGED <<page, domValue>>
    ELSE page' = pg /\ domValue' = [j \in 1..Len(pg.children) |-> Untouched]

\* the element a field's locator designates; Playwright acts on a locator
\* that designates exactly one element
FieldTargets(c) == Resolve(page, CurrentField(call[c]).selector.sel)
Acts(c) == Cardinality(FieldTargets(c)) = 1
FieldTarget(c) == CHOOSE j \in FieldTargets(c) : TRUE

\* new FormFiller(page, locale)
Construct(locale) ==
    /\ \A c \in Slots : call[c].pc = "idle"
    /\ IF getLocaleDefinition(locale) = "throws"
       THEN /\ ctorThrew' = TRUE
            /\ UNCHANGED <<faker, ctorFaker, call, clean>>
       ELSE /\ ctorThrew' = FALSE
            /\ faker' = 0 /\ ctorFaker' = 0 /\ clean' = TRUE
            /\ call' = [c \in Slots |-> IdleCall]
    /\ UNCHANGED <<page, domValue, pdf>>

\* fillField(fieldConfig), called from outside
CallFillField(c, pg, fieldConfig) ==
    /\ call[c].pc = "idle"
    /\ Visit(c, pg)
    /\ Run(c, Await([Entered(c, "fillField") EXCEPT !.c.formFields = <<fieldConfig>>],
                    "begin"))
    /\ ctorThrew' = FALSE
    /\ UNCHANGED <<ctorFaker, pdf>>

\* fillForm(fieldsConfig), called from outside
CallFillForm(c, pg, fieldsConfig) ==
    /\ call[c].pc = "idle"
    /\ Visit(c, pg)
    /\ Run(c, LoopForm([Entered(c, "fillForm") EXCEPT !.c.formFields = fieldsConfig]))
    /\ ctorThrew' = FALSE
    /\ UNCHANGED <<ctorFaker, pdf>>

\* autoFillForm(options), lines 304-330 and 399-402, to the first count()
CallAutoFillForm(c, pg, options) ==
    /\ call[c].pc = "idle"
    /\ Visit(c, pg)
    /\ LET saved == [Entered(c, "autoFillForm") EXCEPT
                        !.c.options = options, !.c.autoOrig = faker]
       IN  IF Truthy(options.locale)
           THEN IF getLocaleDefinition(Value(options.locale)) = "throws"
                THEN Commit(c, Throw(saved, "Unsupported locale"))
                ELSE Commit(c, Await(NewFaker(saved), "count"))
           ELSE Commit(c, Await(saved, "count"))
    /\ ctorThrew' = FALSE
    /\ UNCHANGED <<ctorFaker, pdf>>

\* detectFormFields, line 402: elements.count() answers
CountDone(c) ==
    /\ call[c].pc = "count"
    /\ LET s == call[c]
           elements == MatchesOfKind(page, s.options.formSelector, fieldSelectors[s.k])
           count == IF Len(elements) < MaxElementsOf(s.options)
                    THEN Len(elements) ELSE MaxElementsOf(s.options)
       IN  Run(c, ScanLoop(Logged([Machine(c) EXCEPT !.c.count = count, !.c.i = 0],
                                  <<Entry("count", 0, 0, fieldSelectors[s.k], TRUE)>>)))
    /\ UNCHANGED <<ctorFaker, ctorThrew, page, domValue, pdf>>

\* the child of the form that elements.nth(i) is
ScannedChild(s) ==
    MatchesOfKind(page, s.options.formSelector, fieldSelectors[s.k])[s.i + 1]

AttributeNames == <<"name", "id", "type", "placeholder", "aria-label", "label">>

\* variant: the name is preferred to the id
SynthesizedSelector_NameFirst(formSelector, elementSelector, i, id, name) ==
    IF name # <<>> THEN NameSelector(elementSelector, name)
    ELSE IF id # <<>> THEN IdSelector(id)
    ELSE NthChildSelector(formSelector, elementSelector, i)

\* detectFormFields, lines 415-424
SynthesizedSelector(formSelector, elementSelector, i, id, name) ==
    IF id # <<>> THEN IdSelector(id)
    ELSE IF name # <<>> THEN NameSelector(elementSelector, name)
    ELSE NthChildSelector(formSelector, elementSelector, i)

\* detectFormFields, lines 427-431
Excluded(excludeSelectors, selector) ==
    \E n \in 1..Len(excludeSelectors) : Includes(selector, excludeSelectors[n])

\* detectFormFields, lines 405-433: the six getAttribute calls answer, the
\* selector is synthesized and tested against excludeSelectors
AttrsDone(c) ==
    /\ call[c].pc = "attrs"
    /\ LET s == call[c]
           j == ScannedChild(s)
           el == page.children[j]
           selector == SynthesizedSelector(s.options.formSelector, fieldSelectors[s.k],
                                           s.i, el.id, el.name)
           read == Logged([Machine(c) EXCEPT !.c.selector = selector],
                          [n \in 1..6 |-> Entry("getAttribute", 0, j, <<AttributeNames[n]>>, TRUE)])
       IN  IF Excluded(s.options.excludeSelectors, selector)
           THEN Run(c, ScanLoop([read EXCEPT !.c.i = @ + 1]))
           ELSE Run(c, Await(read, "classify"))
    /\ UNCHANGED <<ctorFaker, ctorThrew, page, domValue, pdf>>

\* detectFormFields, lines 436-454: determineFieldType's getTagName answers,
\* the descriptor is pushed, the loop goes on
ClassifyDone(c) ==
    /\ call[c].pc = "classify"
    /\ LET s == call[c]
           j == ScannedChild(s)
           el == page.children[j]
           fieldType == determineFieldType(getTagName(el), el.type, el.name, el.id,
                                           el.placeholder, el.ariaLabel, el.label)
           fieldConfig == FieldConfig(StringSelector(s.selector), fieldType)
       IN  Run(c, ScanLoop(Logged([Machine(c) EXCEPT
                                      !.c.formFields = Append(@, fieldConfig),
                                      !.c.sources = Append(@, j),
                                      !.c.i = @ + 1],
                                  <<Entry("getTagName", 0, j, <<>>, TRUE)>>)))
    /\ UNCHANGED <<ctorFaker, ctorThrew, page, domValue, pdf>>

\* getRandomSelectOption, lines 735-750: the evaluate call answers
OptionsDone(c) ==
    /\ call[c].pc = "options"
    /\ Acts(c)
    /\ \E v \in RandomSelectOption(page.children[FieldTarget(c)]) :
          Commit(c, Await(Logged([Machine(c) EXCEPT !.c.value = v],
                                 <<Entry("options", call[c].idx + 1, FieldTarget(c), <<>>, TRUE)>>),
                          "tag"))
    /\ UNCHANGED <<ctorFaker, ctorThrew, page, domValue, pdf>>

\* applyValueToField, line 651: getTagName answers
TagDone(c) ==
    /\ call[c].pc = "tag"
    /\ Acts(c)
    /\ Commit(c, Await(Logged([Machine(c) EXCEPT
                                  !.c.tagName = getTagName(page.children[FieldTarget(c)])],
                              <<Entry("getTagName", call[c].idx + 1, FieldTarget(c), <<>>, TRUE)>>),
                       "itype"))
    /\ UNCHANGED <<ctorFaker, ctorThrew, page, domValue, pdf>>

\* applyValueToField, lines 652-679: getInputType answers and the branch is
\* chosen
InputTypeDone(c) ==
    /\ call[c].pc = "itype"
    /\ Acts(c)
    /\ LET s == call[c]
           inputType == getInputType(page.children[FieldTarget(c)])
           x == Logged([Machine(c) EXCEPT !.c.inputType = inputType],
                       <<Entry("getInputType", s.idx + 1, FieldTarget(c), <<>>, TRUE)>>)
       IN  IF ApplyOp(s.tagName, inputType, CurrentField(s), s.value) = "none"
           THEN Run(c, AfterApply(x, 0))
           ELSE Commit(c, Await(x, "apply"))
    /\ UNCHANGED <<ctorFaker, ctorThrew, page, domValue, pdf>>

\* Playwright's selectOption finds an enabled option with the value (the
\* option without a value for "")
Applies(op, el, arg) ==
    op = "selectOption" =>
        \E n \in 1..Len(el.options) : el.options[n].value = arg /\ ~el.options[n].disabled

\* applyValueToField, lines 654-679: selectOption / check / uncheck /
\* setInputFiles / fill answers
ApplyDone(c) ==
    /\ call[c].pc = "apply"
    /\ Acts(c)
    /\ LET s == call[c]
           op == ApplyOp(s.tagName, s.inputType, CurrentField(s), s.value)
           arg == ApplyArg(op, CurrentField(s), s.value)
       IN  /\ Applies(op, page.children[FieldTarget(c)], arg)
           /\ domValue' = [domValue EXCEPT ![FieldTarget(c)] = [how |-> op, arg |-> arg]]
           /\ Run(c, AfterApply(Logged(Machine(c),
                                       <<Entry(op, s.idx + 1, FieldTarget(c), arg, TRUE)>>), 0))
    /\ UNCHANGED <<ctorFaker, ctorThrew, page, pdf>>

\* applyValueToField, lines 682-692: a post-action answers
PostDone(c, n) ==
    /\ call[c].pc = PostActions[n]
    /\ Acts(c)
    /\ Run(c, AfterApply(Logged(Machine(c),
                                <<Entry(PostActions[n], call[c].idx + 1, FieldTarget(c), <<>>, TRUE)>>), n))
    /\ UNCHANGED <<ctorFaker, ctorThrew, page, domValue, pdf>>

ClickDone(c) == PostDone(c, 1)
PressDone(c) == PostDone(c, 2)
BlurDone(c) == PostDone(c, 3)

\* autoFillForm, lines 350-366: isVisible answers
VisibleDone(c) ==
    /\ call[c].pc = "visible"
    /\ LET s == call[c]
           x == Logged(Machine(c), <<Entry("isVisible", 0, 0, s.options.submitSelector, TRUE)>>)
       IN  IF page.submitVisible THEN Commit(c, Await(x, "submitClick"))
           ELSE IF Len(s.formFields) > 0 THEN Commit(c, Await(x, "submitPress"))
           ELSE Commit(c, AutoReturn(x))
    /\ UNCHANGED <<ctorFaker, ctorThrew, page, domValue, pdf>>

\* autoFillForm, line 354: submitButton.click() answers
SubmitClickDone(c) ==
    /\ call[c].pc = "submitClick"
    /\ Commit(c, AutoReturn(Logged(Machine(c),
           <<Entry("submitClick", 0, 0, call[c].options.submitSelector, TRUE)>>)))
    /\ UNCHANGED <<ctorFaker, ctorThrew, page, domValue, pdf>>

\* variant: Enter goes to the first field
LastTargets_First(c) == Resolve(page, call[c].formFields[1].selector.sel)

\* the element lastLocator designates
LastTargets(c) ==
    Resolve(page, call[c].formFields[Len(call[c].formFields)].selector.sel)

\* autoFillForm, lines 357-364: lastLocator.press("Enter") answers
SubmitPressDone(c) ==
    /\ call[c].pc = "submitPress"
    /\ Cardinality(LastTargets(c)) = 1
    /\ Commit(c, AutoReturn(Logged(Machine(c),
           <<Entry("submitPress", 0, CHOOSE j \in LastTargets(c) : TRUE, <<>>, TRUE)>>)))
    /\ UNCHANGED <<ctorFaker, ctorThrew, page, domValue, pdf>>

\* the awaited interaction rejects (element not found, not interactable,
\* detached, timeout): nothing catches it, the call rejects
Fail(c) ==
    /\ Active(call[c])
    /\ Commit(c, Throw(Logged(Machine(c),
           <<Entry(call[c].pc, IF call[c].pc \in {"options", "tag", "itype", "apply", "click", "press", "blur"}
                               THEN call[c].idx + 1 ELSE 0, 0, <<>>, FALSE)>>),
           "interaction"))
    /\ UNCHANGED <<ctorFaker, ctorThrew, page, domValue, pdf>>

\* the caller's await takes the outcome of the call (a value or the
\* rejection): the frames are gone; when no call is left, the test moves on
\* from the page.  Generators are only compared for identity: with no frame
\* left to refer to one, a generator that is not the constructor's is the
\* only other one, and is named next to the constructor's.
Settle(c) ==
    /\ call[c].pc \in {"returned", "thrown"}
    /\ call' = [call EXCEPT ![c] = IdleCall]
    /\ IF \A d \in Slots \ {c} : call[d].pc = "idle"
       THEN /\ page' = NoPage /\ domValue' = <<>>
            /\ faker' = IF faker = ctorFaker THEN faker ELSE ctorFaker + 1
       ELSE UNCHANGED <<page, domValue, faker>>
    /\ UNCHANGED <<ctorFaker, ctorThrew, clean, pdf>>

-----------------------------------------------------------------------------
(* Inputs *)

SeqsUpTo(S, n) == UNION {[1..m -> S] : m \in 0..n}

Option(value) == [value |-> value, disabled |-> FALSE]

\* the children a form is built from: an input with an id, an input with
\* neither id nor name, a select, a textarea, and a child that is no field
Shapes ==
    {El(<<"input">>, T_text, <<"c">>, <<>>),
     El(<<"input">>, <<>>, <<>>, <<>>),
     [El(<<"select">>, <<>>, <<>>, <<>>) EXCEPT !.options = <<Option(<<"o">>)>>],
     El(<<"textarea">>, <<>>, <<>>, <<>>),
     El(<<"label">>, <<>>, <<>>, <<>>)}

Pages ==
    {[children |-> ch, submitVisible |-> v] :
        ch \in SeqsUpTo(Shapes, MaxChildren), v \in BOOLEAN}

\* the page the explicit calls work on: two inputs and a custom element
ExplicitPage ==
    [children |-> <<El(<<"input">>, T_text, <<"a">>, <<>>),
                    El(<<"field-", "1">>, <<>>, <<>>, <<>>),
                    El(<<"input">>, T_text, <<"b">>, <<>>)>>,
     submitVisible |-> FALSE]

Locales == {{}, {""}, {"en"}, {"xx"}}

ValueGenerators ==
    {{}, {[throws |-> TRUE]}, {[throws |-> FALSE, value |-> StringValue(<<"custom">>)]}}

\* the configs fillField is called with
FillFieldConfigs ==
    {[FieldConfig(selector, "text") EXCEPT
         !.locale = locale, !.valueGenerator = generator,
         !.clickAfterFill = 1 \in post, !.pressEnterAfterFill = 2 \in post,
         !.blurAfterFill = 3 \in post] :
        selector \in {StringSelector(<<"#", "a">>), Locator(<<"#", "b">>)},
        locale \in Locales, generator \in ValueGenerators,
        post \in {{}, {2}, {1, 3}, {1, 2, 3}}}

\* the configs fillForm's lists are made of
FormConfigs ==
    {FieldConfig(StringSelector(<<"#", "a">>), "text"),
     [FieldConfig(StringSelector(<<"field-", "1">>), "email") EXCEPT !.locale = {"en"}],
     FieldConfig(Locator(<<"#", "b">>), "name"),
     [FieldConfig(Locator(<<"#", "b">>), "city") EXCEPT !.locale = {"xx"}]}

FormLists == SeqsUpTo(FormConfigs, MaxFields)

NoCustomFields == <<>>
CustomField(selector, override) == [s \in {selector} |-> override]

\* the options autoFillForm is called with: what the Scanner reads
\* (excludeSelectors, maxElements), what the locale handling reads (locale, a
\* customFields override with a locale), and submitAfterFill
AutoOptions ==
    {AutoFillOptions(exclude, NoCustomFields, FALSE, {}, maxElements) :
        exclude \in {<<>>, << <<"#", "c">> >>},
        maxElements \in {{}} \cup {{n} : n \in 0..MaxMaxElements}}
    \cup
    {AutoFillOptions(<<>>, NoCustomFields, TRUE, {}, {})}

\* ... and the options that make it install a locale, on the pages of inputs
LocaleOptions ==
    {AutoFillOptions(<<>>, custom, FALSE, locale, {}) :
        custom \in {NoCustomFields,
                    CustomField(<<"#", "c">>, [locale |-> {"en"}]),
                    CustomField(<<"#", "c">>, [locale |-> {"xx"}])},
        locale \in Locales}

InputPages ==
    {pg \in Pages :
        /\ ~pg.submitVisible
        /\ \A j \in 1..Len(pg.children) : pg.children[j].tag = <<"input">>}

-----------------------------------------------------------------------------
(* PdfValidator.downloadAndVerifyPdfSize *)

\* the frames of one call: downloadAndVerifyPdfSize's (minSizeBytes,
\* downloadPath, filePath, exists, fileSize) and downloadPdf's (savedPath is
\* filePath); file is the downloaded file as the file system has it, log the
\* awaited operations
IdlePdf ==
    [pc |-> "idle", err |-> "none", minSizeBytes |-> 0, downloadPath |-> <<>>,
     filePath |-> {}, exists |-> {}, fileSize |-> {},
     file |-> [exists |-> FALSE, size |-> 0], log |-> <<>>, result |-> {}]

\* download.suggestedFilename() and download.path()
SuggestedFilename == <<"doc.pdf">>
DefaultPath == <<"tmp", "/", "doc.pdf">>

\* path.join(downloadPath, suggestedFilename)
Join(downloadPath, name) == downloadPath \o <<"/">> \o name

PdfLogged(x, op) == [x EXCEPT !.log = Append(@, op)]

\* variant: a file of exactly the minimum size is rejected
TooSmall_OrEqual(fileSize, minSizeBytes) == fileSize <= minSizeBytes

\* downloadAndVerifyPdfSize, line 137: fileSize < minSizeBytes
TooSmall(fileSize, minSizeBytes) == fileSize < minSizeBytes

\* downloadAndVerifyPdfSize(page, triggerSelector, minSizeBytes, downloadPath)
\* is called: downloadPdf registers for the download event and clicks
CallDownloadAndVerifyPdfSize(minSizeBytes, downloadPath) ==
    /\ pdf.pc = "idle"
    /\ pdf' = [IdlePdf EXCEPT !.pc = "click", !.minSizeBytes = minSizeBytes,
                              !.downloadPath = downloadPath]
    /\ UNCHANGED fillerVars

\* downloadPdf, line 24: page.click answers
PdfClickDone ==
    /\ pdf.pc = "click"
    /\ pdf' = PdfLogged([pdf EXCEPT !.pc = "download"], "click")
    /\ UNCHANGED fillerVars

\* downloadPdf, lines 27-47: the download event arrives; with a downloadPath
\* the directory is made, without one download.path() is awaited
PdfDownloadStarted ==
    /\ pdf.pc = "download"
    /\ pdf' = PdfLogged([pdf EXCEPT !.pc = IF pdf.downloadPath # <<>> THEN "mkdir" ELSE "path"],
                        "download")
    /\ UNCHANGED fillerVars

\* downloadPdf, lines 37-39: fs.mkdir answers, a rejection is ignored
PdfMkdirDone ==
    /\ pdf.pc = "mkdir"
    /\ pdf' = PdfLogged([pdf EXCEPT !.pc = "saveAs"], "mkdir")
    /\ UNCHANGED fillerVars

\* downloadPdf, lines 41-42 and 49, downloadAndVerifyPdfSize, line 131:
\* download.saveAs answers, the file is there; fileExists is called
PdfSaveAsDone ==
    /\ pdf.pc = "saveAs"
    /\ \E size \in 0..MaxBytes :
          pdf' = PdfLogged([pdf EXCEPT
                               !.pc = "access",
                               !.filePath = {Join(pdf.downloadPath, SuggestedFilename)},
                               !.file = [exists |-> TRUE, size |-> size]],
                           "saveAs")
    /\ UNCHANGED fillerVars

\* downloadPdf, lines 45 and 49, downloadAndVerifyPdfSize, line 131:
\* download.path() answers; fileExists is called
PdfPathDone ==
    /\ pdf.pc = "path"
    /\ \E size \in 0..MaxBytes :
          pdf' = PdfLogged([pdf EXCEPT
                               !.pc = "access", !.filePath = {DefaultPath},
                               !.file = [exists |-> TRUE, size |-> size]],
                           "path")
    /\ UNCHANGED fillerVars

\* the click, the download, saveAs or path() rejects: downloadPdf and
\* downloadAndVerifyPdfSize reject with it
PdfFail ==
    /\ pdf.pc \in {"click", "download", "saveAs", "path"}
    /\ pdf' = [pdf EXCEPT !.pc = "thrown", !.err = "download"]
    /\ UNCHANGED fillerVars

\* something else removes the downloaded file while the call is in flight
PdfUnlink ==
    /\ pdf.pc \in {"access", "stat"}
    /\ pdf.file.exists
    /\ pdf' = [pdf EXCEPT !.file.exists = FALSE]
    /\ UNCHANGED fillerVars

\* fileExists, lines 79-88, downloadAndVerifyPdfSize, lines 131-136:
\* fs.access answers
PdfAccessDone ==
    /\ pdf.pc = "access"
    /\ LET x == PdfLogged([pdf EXCEPT !.exists = {pdf.file.exists}], "access")
       IN  pdf' = IF ~pdf.file.exists
                  THEN [x EXCEPT !.pc = "thrown", !.err = "PDF file not found"]
                  ELSE [x EXCEPT !.pc = "stat"]
    /\ UNCHANGED fillerVars

\* getFileSize, lines 95-106, downloadAndVerifyPdfSize, lines 136-144:
\* fs.stat answers
PdfStatDone ==
    /\ pdf.pc = "stat"
    /\ LET x == PdfLogged(pdf, "stat")
       IN  pdf' = IF ~pdf.file.exists
                  THEN [x EXCEPT !.pc = "thrown", !.err = "Failed to get file size"]
                  ELSE IF TooSmall(pdf.file.size, pdf.minSizeBytes)
                  THEN [x EXCEPT !.fileSize = {pdf.file.size}, !.pc = "thrown",
                                 !.err = "PDF file size is less than expected minimum"]
                  ELSE [x EXCEPT !.fileSize = {pdf.file.size}, !.pc = "returned",
                                 !.result = pdf.filePath]
    /\ UNCHANGED fillerVars

\* the caller takes the outcome
PdfSettle ==
    /\ pdf.pc \in {"returned", "thrown"}
    /\ pdf' = IdlePdf
    /\ UNCHANGED fillerVars

PdfCalls ==
    \E minSizeBytes \in 0..(MaxBytes + 1), downloadPath \in {<<>>, <<"out">>} :
        CallDownloadAndVerifyPdfSize(minSizeBytes, downloadPath)

NextPdf ==
    \/ PdfCalls
    \/ PdfClickDone
    \/ PdfDownloadStarted
    \/ PdfMkdirDone
    \/ PdfSaveAsDone
    \/ PdfPathDone
    \/ PdfFail
    \/ PdfUnlink
    \/ PdfAccessDone
    \/ PdfStatDone
    \/ PdfSettle

-----------------------------------------------------------------------------
(* The engine used by one flow: a call is made when the last has finished *)

Init ==
    /\ faker = 0
    /\ ctorFaker = 0
    /\ ctorThrew = FALSE
    /\ page = NoPage
    /\ domValue = <<>>
    /\ call = [c \in Slots |-> IdleCall]
    /\ clean = TRUE
    /\ pdf = IdlePdf

\* the interactions of the Scanner
ScanStep(c) ==
    \/ CountDone(c)
    \/ AttrsDone(c)
    \/ ClassifyDone(c)

\* the interactions of a plain field, and the end of a call
FieldStep(c) ==
    \/ TagDone(c)
    \/ InputTypeDone(c)
    \/ ApplyDone(c)
    \/ Fail(c)
    \/ Settle(c)

Step(c) ==
    \/ ScanStep(c)
    \/ FieldStep(c)
    \/ OptionsDone(c)
    \/ ClickDone(c)
    \/ PressDone(c)
    \/ BlurDone(c)
    \/ VisibleDone(c)
    \/ SubmitClickDone(c)
    \/ SubmitPressDone(c)

\* the calls a flow makes when it is not in one
Calls(c) ==
    /\ call[c].pc = "idle"
    /\ \/ \E locale \in {"en", "xx", ""} : Construct(locale)
       \/ \E fieldConfig \in FillFieldConfigs : CallFillField(c, ExplicitPage, fieldConfig)
       \/ \E fieldsConfig \in FormLists : CallFillForm(c, ExplicitPage, fieldsConfig)
       \/ \E pg \in Pages, options \in AutoOptions :
             /\ pg.submitVisible => options.submitAfterFill
             /\ CallAutoFillForm(c, pg, options)
       \/ \E pg \in InputPages, options \in LocaleOptions :
             CallAutoFillForm(c, pg, options)

Next == Calls(1) \/ Step(1)

Spec == Init /\ [][Next]_vars

-----------------------------------------------------------------------------
(* The engine shared by two flows: the second makes a call while a call of
   the first is suspended at an element interaction *)

\* the calls that install a locale for their whole duration
OverridingFields ==
    {[FieldConfig(selector, "text") EXCEPT !.locale = {"en"}] :
        selector \in {StringSelector(<<"#", "a">>), Locator(<<"#", "b">>)}}

OverridingOptions == AutoFillOptions(<<>>, NoCustomFields, FALSE, {"en"}, {})

OverridingCalls(c) ==
    \/ \E fieldConfig \in OverridingFields : CallFillField(c, ExplicitPage, fieldConfig)
    \/ CallAutoFillForm(c, ExplicitPage, OverridingOptions)

FirstCalls ==
    /\ \A c \in Slots : call[c].pc = "idle"
    /\ OverridingCalls(1)

SecondCalls ==
    /\ Active(call[1])
    /\ OverridingCalls(2)

NextConc ==
    \/ FirstCalls
    \/ SecondCalls
    \/ \E c \in Slots : ScanStep(c) \/ FieldStep(c)

SpecConc == Init /\ [][NextConc]_vars

-----------------------------------------------------------------------------
(* autoFillForm with customFields, on forms of inputs *)

\* overrides for the input with the id c and for a selector no form has
MergeOverrides ==
    {NoCustomFields,
     CustomField(<<"#", "c">>, [type |-> "number", min |-> {5}, max |-> {5}]),
     CustomField(<<"#", "z">>, [type |-> "email", pressEnterAfterFill |-> TRUE]),
     [sel \in {<<"#", "c">>, <<"#", "z">>} |->
         IF sel = <<"#", "c">> THEN [type |-> "url", pressEnterAfterFill |-> TRUE]
         ELSE [type |-> "email"]]}

MergeCalls ==
    /\ call[1].pc = "idle"
    /\ \E pg \in InputPages, customFields \in MergeOverrides :
          CallAutoFillForm(1, pg, AutoFillOptions(<<>>, customFields, FALSE, {}, {}))

NextMerge == MergeCalls \/ ScanStep(1) \/ FieldStep(1) \/ PressDone(1)

SpecMerge == Init /\ [][NextMerge]_vars

-----------------------------------------------------------------------------
(* autoFillForm on forms of one element, whose attributes carry the signals
   the classifier reads *)

S_Phone == <<"P", "h", "o", "n", "e">>
S_zipcity == <<"z", "i", "p", "c", "i", "t", "y">>
S_q == <<"q">>
T_EMAIL == <<"E", "M", "A", "I", "L">>
T_zz == <<"z", "z">>
T_constructor == <<"c", "o", "n", "s", "t", "r", "u", "c", "t", "o", "r">>

ClassifyElements ==
    {[tag |-> tag, type |-> type, id |-> id, name |-> name,
      placeholder |-> placeholder, ariaLabel |-> ariaLabel, label |-> label,
      options |-> <<>>] :
        tag \in {<<"input">>, <<"select">>, <<"textarea">>},
        type \in {<<>>, T_text, T_EMAIL, T_zz, T_constructor},
        name \in {<<>>, S_Phone, S_zipcity, S_q},
        id \in {<<>>, S_Phone, S_zipcity},
        placeholder \in {<<>>, S_Phone},
        ariaLabel \in {<<>>, S_zipcity},
        label \in {<<>>, S_Phone}}

ClassifyCalls ==
    /\ call[1].pc = "idle"
    /\ \E el \in ClassifyElements :
          CallAutoFillForm(1, [children |-> <<el>>, submitVisible |-> FALSE],
                           AutoFillOptions(<<>>, NoCustomFields, FALSE, {}, {}))

NextClassify == ClassifyCalls \/ ScanStep(1) \/ FieldStep(1) \/ OptionsDone(1)

SpecClassify == Init /\ [][NextClassify]_vars

-----------------------------------------------------------------------------
(* fillField alone: value generation and the choice of the fill technique *)

\* enum FieldType
FieldTypes ==
    {"text", "email", "password", "phone", "number", "date", "select", "checkbox",
     "radio", "textarea", "file", "name", "address", "city", "state", "zip",
     "country", "company", "url", "custom"}

\* a text input, a select with an enabled option, an option without a value
\* and a disabled one, a select with nothing to choose, a checkbox, a file
\* input and a textarea
FieldPage ==
    [children |->
        <<El(<<"input">>, T_text, <<"a">>, <<>>),
          [El(<<"select">>, <<>>, <<"s">>, <<>>) EXCEPT
              !.options = <<Option(<<"o">>), Option(<<>>),
                            [value |-> <<"d">>, disabled |-> TRUE], Option(<<"p">>)>>],
          [El(<<"select">>, <<>>, <<"e">>, <<>>) EXCEPT
              !.options = <<Option(<<>>), [value |-> <<"d">>, disabled |-> TRUE]>>],
          El(<<"input">>, T_checkbox, <<"k">>, <<>>),
          El(<<"input">>, T_file, <<"f">>, <<>>),
          El(<<"textarea">>, <<>>, <<"t">>, <<>>)>>,
     submitVisible |-> FALSE]

FieldIds == {<<"a">>, <<"s">>, <<"e">>, <<"k">>, <<"f">>, <<"t">>}

\* what a valueGenerator of a config does: throw, or hand back a string, a
\* number or a boolean
GeneratorOutcomes ==
    {[throws |-> TRUE],
     [throws |-> FALSE, value |-> StringValue(<<"o">>)],
     [throws |-> FALSE, value |-> NumberValue(7)],
     [throws |-> FALSE, value |-> BooleanValue(TRUE)],
     [throws |-> FALSE, value |-> BooleanValue(FALSE)]}

\* configs with a valueGenerator, of every type, on every element; min, max
\* and options are there to be ignored
GeneratorConfigs ==
    {[FieldConfig(StringSelector(IdSelector(id)), type) EXCEPT
         !.valueGenerator = {generator}, !.min = {5}, !.max = {5},
         !.options = << <<"p">> >>, !.filePath = filePath] :
        id \in FieldIds, type \in FieldTypes, generator \in GeneratorOutcomes,
        filePath \in {<<>>, <<"upload.txt">>}}

\* NUMBER configs: { min, max } as given, one of them, none, and min > max
NumberRanges ==
    {<<{}, {}>>, <<{5}, {5}>>, <<{0}, {2}>>, <<{}, {3}>>, <<{98}, {}>>, <<{7}, {3}>>}

NumberConfigs ==
    {[FieldConfig(StringSelector(<<"#", "a">>), "number") EXCEPT
         !.min = range[1], !.max = range[2]] : range \in NumberRanges}

\* SELECT configs with and without options, on the selects and on an input
SelectConfigs ==
    {[FieldConfig(StringSelector(IdSelector(id)), "select") EXCEPT
         !.options = options, !.pressEnterAfterFill = press] :
        id \in {<<"a">>, <<"s">>, <<"e">>},
        options \in {<<>>, << <<"o">> >>, << <<"o">>, <<"p">> >>},
        press \in BOOLEAN}

\* configs of the other types without a valueGenerator
PlainConfigs ==
    {[FieldConfig(StringSelector(IdSelector(id)), type) EXCEPT !.filePath = filePath] :
        id \in FieldIds, type \in {"text", "checkbox", "file", "textarea"},
        filePath \in {<<>>, <<"upload.txt">>}}

FieldCalls ==
    /\ call[1].pc = "idle"
    /\ \E fieldConfig \in GeneratorConfigs \cup NumberConfigs \cup SelectConfigs
                            \cup PlainConfigs :
          CallFillField(1, FieldPage, fieldConfig)

NextField == FieldCalls \/ FieldStep(1) \/ OptionsDone(1) \/ PressDone(1)

SpecField == Init /\ [][NextField]_vars

-----------------------------------------------------------------------------
(* fillField alone: the post-actions *)

\* configs with every combination of clickAfterFill, pressEnterAfterFill and
\* blurAfterFill, on a text input, a select, a checkbox and a file input, with
\* values that take applyValueToField through each of its branches
PostConfigs ==
    {[FieldConfig(StringSelector(IdSelector(id)), "text") EXCEPT
         !.valueGenerator = {[throws |-> FALSE, value |-> value]},
         !.filePath = <<"upload.txt">>,
         !.clickAfterFill = 1 \in post, !.pressEnterAfterFill = 2 \in post,
         !.blurAfterFill = 3 \in post] :
        id \in {<<"a">>, <<"s">>, <<"k">>, <<"f">>},
        value \in {StringValue(<<"o">>), BooleanValue(TRUE), NumberValue(7)},
        post \in SUBSET {1, 2, 3}}

PostCalls ==
    /\ call[1].pc = "idle"
    /\ \E fieldConfig \in PostConfigs : CallFillField(1, FieldPage, fieldConfig)

NextPost ==
    PostCalls \/ FieldStep(1) \/ ClickDone(1) \/ PressDone(1) \/ BlurDone(1)

SpecPost == Init /\ [][NextPost]_vars

SpecPdf == Init /\ [][NextPdf]_vars

-----------------------------------------------------------------------------
(* The Scanner on one input whose signals hold several keys of the table *)

\* signals that contain several keys, in either order of occurrence
KeyedSignals ==
    {<<"p", "h", "o", "n", "e", "_", "n", "u", "m", "b", "e", "r">>,
     <<"n", "u", "m", "b", "e", "r", "_", "p", "h", "o", "n", "e">>,
     <<"c", "o", "m", "p", "a", "n", "y", "_", "n", "a", "m", "e">>,
     <<"N", "a", "m", "e", "_", "O", "f", "_", "C", "o", "m", "p", "a", "n", "y">>,
     <<"w", "e", "b", "_", "u", "r", "l">>,
     <<"c", "i", "t", "y", "_", "s", "t", "r", "e", "e", "t">>,
     <<"s", "t", "r", "e", "e", "t", "_", "c", "i", "t", "y">>,
     <<"e", "m", "a", "i", "l", "_", "a", "d", "d", "r", "e", "s", "s">>,
     <<"f", "i", "r", "s", "t", "_", "n", "a", "m", "e">>,
     <<"T", "e", "l", "e", "p", "h", "o", "n", "e">>}

KeyedElements ==
    {[tag |-> <<"input">>, type |-> type, id |-> id, name |-> name,
      placeholder |-> placeholder, ariaLabel |-> <<>>, label |-> <<>>,
      options |-> <<>>] :
        type \in {<<>>},
        name \in KeyedSignals \cup {<<>>},
        id \in {<<>>, <<"z", "i", "p", "_", "m", "o", "b", "i", "l", "e">>},
        placeholder \in {<<>>, <<"T", "o", "w", "n", " ", "o", "r", " ", "R", "e", "g", "i", "o", "n">>}}

KeyedCalls ==
    /\ call[1].pc = "idle"
    /\ \E el \in KeyedElements :
          CallAutoFillForm(1, [children |-> <<el>>, submitVisible |-> FALSE],
                           AutoFillOptions(<<>>, NoCustomFields, FALSE, {}, {}))

NextKeyed == KeyedCalls \/ ScanStep(1) \/ FieldStep(1)

SpecKeyed == Init /\ [][NextKeyed]_vars

-----------------------------------------------------------------------------
(* The Scanner on forms whose elements share ids and names *)

\* an input with an id and a name, a radio button of the group "n", an input
\* with neither, a select with neither, and a label
ScanShapes ==
    {El(<<"input">>, T_text, <<"a">>, <<"n">>),
     El(<<"input">>, T_radio, <<>>, <<"n">>),
     El(<<"input">>, <<>>, <<>>, <<>>),
     [El(<<"select">>, <<>>, <<>>, <<>>) EXCEPT !.options = <<Option(<<"o">>)>>],
     El(<<"label">>, <<>>, <<>>, <<>>)}

ScanPages ==
    {[children |-> ch, submitVisible |-> FALSE] : ch \in SeqsUpTo(ScanShapes, MaxChildren)}

ScanCalls ==
    /\ call[1].pc = "idle"
    /\ \E pg \in ScanPages :
          CallAutoFillForm(1, pg, AutoFillOptions(<<>>, NoCustomFields, FALSE, {}, {}))

NextScan == ScanCalls \/ ScanStep(1) \/ FieldStep(1) \/ OptionsDone(1)

SpecScan == Init /\ [][NextScan]_vars

-----------------------------------------------------------------------------
(* fillForm over lists that mix string selectors, plain and of the form
   'field-<n>', with element handles *)

KeyConfigs ==
    {FieldConfig(StringSelector(<<"#", "a">>), "text"),
     FieldConfig(StringSelector(<<"#", "b">>), "text"),
     FieldConfig(StringSelector(<<"field-", "1">>), "text"),
     FieldConfig(Locator(<<"#", "a">>), "text"),
     FieldConfig(Locator(<<"#", "b">>), "text")}

KeyLists == SeqsUpTo(KeyConfigs, MaxFields)

KeyCalls ==
    /\ call[1].pc = "idle"
    /\ \E fieldsConfig \in KeyLists : CallFillForm(1, ExplicitPage, fieldsConfig)

NextKeys == KeyCalls \/ FieldStep(1)

SpecKeys == Init /\ [][NextKeys]_vars

-----------------------------------------------------------------------------
(* Claims *)

Finished(s) == s.pc \in {"returned", "thrown"}

\* the field a call threw in, counted from 0 (fields 0..k-1 had completed)
ThrewInField(s) == s.pc = "thrown" /\ s.idx < Len(s.formFields)

\* C1: the Scanner never holds more than maxElements descriptors, counted
\* across inputs, dropdowns and text areas together.
C1_ScannerCapsTotal ==
    \A c \in Slots :
        call[c].op = "autoFillForm" =>
            Len(call[c].formFields) <= MaxElementsOf(call[c].options)

\* C2: when a fillField call whose config sets a locale has completed, by
\* returning or by throwing, this.faker is the generator that was current
\* when the call was made.
C2_FillFieldRestoresGenerator ==
    \A c \in Slots :
        (/\ call[c].op = "fillField"
         /\ Finished(call[c])
         /\ call[c].formFields[1].locale # {})
        => faker = call[c].pre

\* C3: with every call made after the last has finished, and none having
\* thrown, the generator between calls is the one the constructor installed;
\* so it is after an autoFillForm with options.locale and a merged config
\* with a locale of its own.
C3_ConstructorGeneratorAfterNormalCalls ==
    (clean /\ \A c \in Slots : ~Active(call[c])) => faker = ctorFaker

\* an autoFillForm with a locale has returned after filling a field whose
\* merged config had a locale of its own
C3_Witness ==
    /\ clean
    /\ call[1].op = "autoFillForm" /\ call[1].pc = "returned"
    /\ Truthy(call[1].options.locale)
    /\ \E n \in 1..Len(call[1].formFields) : Truthy(call[1].formFields[n].locale)
    /\ call[1].autoOrig # call[1].fieldOrig
    /\ faker = ctorFaker

\* the rank the claimed fill order gives a child: inputs, dropdowns, text areas
Rank(el) ==
    CASE el.tag = <<"input">> -> 1
      [] el.tag = <<"select">> -> 2
      [] el.tag = <<"textarea">> -> 3
      [] OTHER -> 4

\* an interaction that belongs to the filling of a field
OfField(e) == e.field > 0

\* C4: fields are filled one after another in list order: every element
\* operation of a config comes before any operation of the next config, a
\* config is begun when those before it have returned, and autoFillForm's
\* list is the detected inputs, then the dropdowns, then the text areas, each
\* kind in document order.
C4_FieldsFilledInOrder ==
    \A c \in Slots :
        LET s == call[c] IN
        /\ LET filling == SelectSeq(s.log, OfField)
           IN  \A n \in 1..(Len(filling) - 1) : filling[n].field <= filling[n + 1].field
        /\ \A n \in 1..Len(s.log) :
              s.log[n].field > 0 =>
                  /\ s.log[n].field <= Len(s.values) + 1
                  /\ s.log[n].field <= Len(s.formFields)
        /\ s.op = "autoFillForm" =>
              \A m, n \in 1..Len(s.sources) :
                  m < n =>
                      LET a == s.sources[m]
                          b == s.sources[n]
                      IN  \/ Rank(page.children[a]) < Rank(page.children[b])
                          \/ /\ Rank(page.children[a]) = Rank(page.children[b])
                             /\ a < b

\* autoFillForm has filled an input and then a dropdown that comes before the
\* input in the document
C4_Witness ==
    /\ call[1].op = "autoFillForm" /\ call[1].pc = "returned"
    /\ call[1].sources = <<2, 1>>
    /\ Len(call[1].values) = 2
    /\ \E m, n \in 1..Len(call[1].log) :
          /\ m < n
          /\ call[1].log[m].field = 1 /\ call[1].log[m].op = "fill" /\ call[1].log[m].el = 2
          /\ call[1].log[n].field = 2 /\ call[1].log[n].op = "selectOption" /\ call[1].log[n].el = 1

ApplyOps == {"selectOption", "check", "uncheck", "setInputFiles", "fill"}

\* what the call's log says a child was last given
LastApplied(log, j) ==
    LET on == {n \in 1..Len(log) : log[n].ok /\ log[n].op \in ApplyOps /\ log[n].el = j}
    IN  IF on = {} THEN Untouched
        ELSE LET n == CHOOSE n \in on : \A m \in on : m <= n
             IN  [how |-> log[n].op, arg |-> log[n].arg]

\* C5: a failed element operation ends the call at once with that failure:
\* it is the last operation the call attempts (no retry, no later field, no
\* submit), no operation is attempted twice, and what the fields before it
\* were given stays on the page.
C5_FailurePropagatesAtOnce ==
    \A c \in Slots :
        LET s == call[c] IN
        /\ \A n \in 1..Len(s.log) :
              ~s.log[n].ok =>
                  n = Len(s.log) /\ s.pc = "thrown" /\ s.err = "interaction"
        /\ Cardinality({s.log[n] : n \in 1..Len(s.log)}) = Len(s.log)
        /\ s.pc = "thrown" => s.result = {}
        /\ Active(s) \/ Finished(s) =>
              \A j \in 1..Len(domValue) : domValue[j] = LastApplied(s.log, j)

\* fillForm has failed in its second or a later field, and the first field's
\* element still has what it was given
C5_Witness ==
    /\ call[1].op = "fillForm" /\ ThrewInField(call[1])
    /\ call[1].err = "interaction"
    /\ call[1].idx >= 1
    /\ \E j \in 1..Len(domValue) : domValue[j].how = "fill"

\* the map the claimed keying rule builds from the first n configs and the
\* values fillField returned for them
WithEntry(map, key, value) ==
    [q \in DOMAIN map \cup {key} |-> IF q = key THEN value ELSE map[q]]

RECURSIVE ExpectedMap(_, _, _)
ExpectedMap(fieldsConfig, values, n) ==
    IF n = 0 THEN <<>>
    ELSE LET before == ExpectedMap(fieldsConfig, values, n - 1)
             key == IF fieldsConfig[n].selector.isString
                    THEN fieldsConfig[n].selector.sel
                    ELSE <<"field-">> \o NumStr(Cardinality(DOMAIN before))
         IN  WithEntry(before, key, values[n])

\* C6, as claimed: when fillForm fails at field k the caller sees a result
\* map with exactly the entries of the fields 0..k-1.
C6_PartialMapVisible ==
    \A c \in Slots :
        LET s == call[c] IN
        (s.op = "fillForm" /\ s.pc = "thrown")
        => s.result = {ExpectedMap(s.formFields, s.values, s.idx)}

\* C6, amended: when fillForm fails at field k the call rejects and no result
\* map reaches the caller; the map fillForm had built by then holds exactly
\* the entries of the fields 0..k-1, which had completed, and none for field k
\* or later.
C6_PartialMapDiscarded ==
    \A c \in Slots :
        LET s == call[c] IN
        (s.op = "fillForm" /\ s.pc = "thrown")
        => /\ s.result = {}
           /\ Len(s.values) = s.idx
           /\ s.idx < Len(s.formFields)
           /\ s.fieldValues = ExpectedMap(s.formFields, s.values, s.idx)

\* fillForm has failed in its third field with two entries in its map
C6_Witness ==
    /\ call[1].op = "fillForm" /\ call[1].pc = "thrown"
    /\ call[1].idx = 2
    /\ Cardinality(DOMAIN call[1].fieldValues) = 2
    /\ call[1].result = {}

\* a call is in (or threw in) a fillField whose config asks for `locale`
InFieldWithLocale(s, locales) ==
    /\ s.op # "none"
    /\ s.idx < Len(s.formFields)
    /\ CurrentField(s).locale \in locales

\* what the claim says of a request for an unsupported locale: the call has
\* thrown 'Unsupported locale' without an element interaction of its own, and
\* this.faker is what it was
RaisedInField(s) ==
    /\ s.pc = "thrown" /\ s.err = "Unsupported locale"
    /\ \A n \in 1..Len(s.log) : s.log[n].field # s.idx + 1
    /\ faker = s.fieldOrig

RaisedInAutoFill(s) ==
    /\ s.pc = "thrown" /\ s.err = "Unsupported locale"
    /\ s.log = <<>>
    /\ faker = s.pre

IsSyntheticKey(selector) ==
    /\ Len(selector) >= 2
    /\ selector[1] = "field-"
    /\ \A n \in 2..Len(selector) : \E d \in 1..10 : Digit[d] = selector[n]

StringSelectorsDistinct(fieldsConfig) ==
    \A m, n \in 1..Len(fieldsConfig) :
        (m # n /\ fieldsConfig[m].selector.isString /\ fieldsConfig[n].selector.isString)
        => fieldsConfig[m].selector.sel # fieldsConfig[n].selector.sel

\* the key the claim gives the n-th config of a list
ClaimedKey(fieldsConfig, n) ==
    IF fieldsConfig[n].selector.isString
    THEN fieldsConfig[n].selector.sel
    ELSE <<"field-">> \o NumStr(n - 1)

\* C9, as claimed: in a list whose string selectors are pairwise distinct,
\* the result has an entry under the string selector of every string config
\* and under 'field-<i>' for every handle config at index i.
C9_HandleKeyIsIndex ==
    \A c \in Slots :
        LET s == call[c] IN
        (s.op = "fillForm" /\ s.pc = "returned" /\ StringSelectorsDistinct(s.formFields))
        => \A n \in 1..Len(s.formFields) :
              \A map \in s.result : ClaimedKey(s.formFields, n) \in DOMAIN map

\* C9, amended: fillForm keys each entry by the config's string selector, or
\* by 'field-<n>' with n the number of entries then in the map; so for a list
\* whose string selectors are pairwise distinct and none of the form
\* 'field-<n>', the handle config at index i gets the key 'field-<i>', and
\* every config's entry holds the value fillField returned for it.
C9_KeysBySelectorOrCount ==
    \A c \in Slots :
        LET s == call[c] IN
        (s.op = "fillForm" /\ s.pc = "returned")
        => /\ s.result = {ExpectedMap(s.formFields, s.values, Len(s.formFields))}
           /\ (/\ StringSelectorsDistinct(s.formFields)
               /\ \A n \in 1..Len(s.formFields) :
                     s.formFields[n].selector.isString
                     => ~IsSyntheticKey(s.formFields[n].selector.sel))
              => \A map \in s.result :
                    /\ Cardinality(DOMAIN map) = Len(s.formFields)
                    /\ \A n \in 1..Len(s.formFields) :
                          /\ ClaimedKey(s.formFields, n) \in DOMAIN map
                          /\ map[ClaimedKey(s.formFields, n)] = s.values[n]

\* fillForm has returned for a string selector followed by a handle: the
\* handle's value is under 'field-1'
C9_Witness ==
    /\ call[1].op = "fillForm" /\ call[1].pc = "returned"
    /\ Len(call[1].formFields) = 2
    /\ call[1].formFields[1].selector = StringSelector(<<"#", "a">>)
    /\ ~call[1].formFields[2].selector.isString
    /\ \E map \in call[1].result :
          /\ DOMAIN map = {<<"#", "a">>, <<"field-", "1">>}
          /\ map[<<"field-", "1">>] = call[1].values[2]

\* the selector the Scanner synthesizes for the child j of the form
SelectorOfChild(pg, formSelector, j) ==
    LET el == pg.children[j]
        k == CHOOSE k \in 1..Len(fieldSelectors) : MatchesKind(fieldSelectors[k], el)
        elements == MatchesOfKind(pg, formSelector, fieldSelectors[k])
        i == CHOOSE i \in 1..Len(elements) : elements[i] = j
    IN  SynthesizedSelector(formSelector, fieldSelectors[k], i - 1, el.id, el.name)

IsField(el) == \E k \in 1..Len(fieldSelectors) : MatchesKind(fieldSelectors[k], el)

\* C10: autoFillForm makes no descriptor for, applies no value to, and
\* returns no key of an element whose synthesized selector contains one of
\* excludeSelectors.
C10_ExcludedNeverTouched ==
    \A c \in Slots :
        LET s == call[c] IN
        s.op = "autoFillForm" =>
            /\ \A n \in 1..Len(s.formFields) :
                  ~Excluded(s.options.excludeSelectors, s.formFields[n].selector.sel)
            /\ \A map \in s.result : \A key \in DOMAIN map :
                  ~Excluded(s.options.excludeSelectors, key)
            /\ \A n \in 1..Len(s.log) :
                  (s.log[n].ok /\ s.log[n].op \in ApplyOps /\ IsField(page.children[s.log[n].el]))
                  => ~Excluded(s.options.excludeSelectors,
                               SelectorOfChild(page, s.options.formSelector, s.log[n].el))


\* a call that installs a locale when it is made
Overriding(s) ==
    \/ s.op = "fillField" /\ Truthy(s.formFields[1].locale)
    \/ s.op = "autoFillForm" /\ Truthy(s.options.locale)

\* b was made while the overriding call a was suspended, a finished first,
\* and both have finished
Overlapped(a, b) ==
    /\ a # b
    /\ Overriding(call[a]) /\ Overriding(call[b])
    /\ a \in call[b].during
    /\ Finished(call[a]) /\ Finished(call[b])
    /\ a \in call[b].after

\* C8: when a second locale-overriding call is made while a first is
\* suspended at an element interaction and the first finishes before the
\* second, then after both have finished this.faker is not the generator that
\* was current before the first call.
C8_OverlapLosesGenerator ==
    \A a, b \in Slots : Overlapped(a, b) => faker # call[a].pre

\* the part of C8 that the code bears out: when the second call returns, it
\* puts back the generator it found, which the first call had installed
C8_SecondPutsBackTemporary ==
    \A a, b \in Slots :
        (Overlapped(a, b) /\ call[b].pc = "returned")
        => faker = call[b].pre /\ faker # call[a].pre

\* detectFormFields has returned to autoFillForm
ScanOver(s) ==
    /\ s.op = "autoFillForm"
    /\ s.pc \notin {"idle", "count", "attrs", "classify"}
    /\ s.pc = "thrown" =>
          /\ s.log # <<>>
          /\ s.err = "interaction" =>
                s.log[Len(s.log)].op \notin {"count", "attrs", "classify"}

\* the children of the form that the element selectors match and whose
\* synthesized selector contains no exclude string
Eligible(pg, options) ==
    {j \in 1..Len(pg.children) :
        /\ IsField(pg.children[j])
        /\ ~Excluded(options.excludeSelectors,
                     SelectorOfChild(pg, options.formSelector, j))}

\* C11: excluded elements do not use up the maxElements budget: the Scanner
\* returns exactly maxElements descriptors when the form has at least that
\* many eligible, non-excluded elements, and otherwise one descriptor for
\* every eligible, non-excluded element.
C11_ExcludedOutsideBudget ==
    \A c \in Slots :
        LET s == call[c]
            eligible == Cardinality(Eligible(page, s.options))
        IN  ScanOver(s) =>
                Len(s.formFields) = IF eligible >= MaxElementsOf(s.options)
                                    THEN MaxElementsOf(s.options) ELSE eligible

\* the interactions of the submission step, asked or answered
SubmitOps == {"isVisible", "submitClick", "submitPress", "visible"}

\* how many times a call's log has the answered interaction op
Times(log, op) == Cardinality({n \in 1..Len(log) : log[n].ok /\ log[n].op = op})

\* C12: with submitAfterFill, autoFillForm turns to submission only when
\* every detected field has been filled; a visible submit element is clicked
\* and no Enter is pressed; with the submit element not visible and a field
\* filled, Enter is pressed once on the last filled field's element and
\* nothing is clicked; with neither, no submission interaction occurs.
\* Without submitAfterFill the submit element is never queried or clicked.
C12_SubmitsAfterFilling ==
    \A c \in Slots :
        LET s == call[c] IN
        s.op = "autoFillForm" =>
            /\ ~s.options.submitAfterFill =>
                  \A n \in 1..Len(s.log) : s.log[n].op \notin SubmitOps
            /\ \A n \in 1..Len(s.log) :
                  s.log[n].op \in SubmitOps =>
                      /\ ScanOver(s)
                      /\ Len(s.values) = Len(s.formFields)
                      /\ \A m \in 1..Len(s.log) : s.log[m].field > 0 => m < n
            /\ Times(s.log, "submitClick") > 0 => page.submitVisible
            /\ Times(s.log, "submitPress") > 0 => ~page.submitVisible
            /\ (s.pc = "returned" /\ s.options.submitAfterFill) =>
                  /\ Times(s.log, "isVisible") = 1
                  /\ Times(s.log, "submitClick") = (IF page.submitVisible THEN 1 ELSE 0)
                  /\ Times(s.log, "submitPress") =
                        (IF ~page.submitVisible /\ Len(s.values) > 0 THEN 1 ELSE 0)
                  /\ \A n, m \in 1..Len(s.log) :
                        (s.log[n].op = "submitPress" /\ s.log[m].field = Len(s.formFields))
                        => s.log[n].el = s.log[m].el

\* autoFillForm has filled two fields, found no visible submit element and
\* pressed Enter on the second field's element
C12_Witness ==
    /\ call[1].op = "autoFillForm" /\ call[1].pc = "returned"
    /\ call[1].options.submitAfterFill /\ ~page.submitVisible
    /\ Len(call[1].values) = 2
    /\ Times(call[1].log, "submitPress") = 1
    /\ \E n, m \in 1..Len(call[1].log) :
          /\ call[1].log[n].op = "submitPress"
          /\ call[1].log[m].field = 2 /\ call[1].log[m].el = call[1].log[n].el
    /\ \E m \in 1..Len(call[1].log) :
          call[1].log[m].field = 1 /\ call[1].log[m].el # call[1].log[Len(call[1].log)].el

\* the descriptor detectFormFields builds for the child j of the form
Detected(pg, options, j) ==
    LET el == pg.children[j] IN
    FieldConfig(StringSelector(SelectorOfChild(pg, options.formSelector, j)),
                determineFieldType(getTagName(el), el.type, el.name, el.id,
                                   el.placeholder, el.ariaLabel, el.label))

\* C13: customFields are merged onto the detected descriptors by selector
\* equality, shallowly: a descriptor keeps its selector and its place, a
\* property differs from the detected one only if the override for that
\* selector has it, the first descriptor with the selector has every property
\* of the override, a key that is no detected selector adds nothing, and the
\* fields filled are as many as were detected.
C13_CustomFieldsShallowMerge ==
    \A c \in Slots :
        LET s == call[c]
            customFields == s.options.customFields
        IN  ScanOver(s) =>
            /\ Len(s.formFields) = Len(s.sources)
            /\ \A n \in 1..Len(s.formFields) :
                  LET d == Detected(page, s.options, s.sources[n])
                      f == s.formFields[n]
                      sel == d.selector.sel
                  IN  /\ f.selector = d.selector
                      /\ DOMAIN d \subseteq DOMAIN f
                      /\ \A p \in DOMAIN f :
                            (p \notin DOMAIN d \/ f[p] # d[p]) =>
                                /\ sel \in DOMAIN customFields
                                /\ p \in DOMAIN customFields[sel]
                                /\ f[p] = customFields[sel][p]
                      /\ (/\ sel \in DOMAIN customFields
                          /\ \A m \in 1..(n - 1) : s.formFields[m].selector.sel # sel)
                         => \A p \in DOMAIN customFields[sel] : f[p] = customFields[sel][p]
            /\ \A n \in 1..Len(s.log) : s.log[n].field <= Len(s.sources)
            /\ s.pc = "returned" =>
                  /\ Len(s.values) = Len(s.sources)
                  /\ DOMAIN s.fieldValues \subseteq
                        {s.formFields[n].selector.sel : n \in 1..Len(s.formFields)}

\* autoFillForm has returned with two fields filled, the one with the id c as
\* a URL with Enter pressed after it, while the override for #z went nowhere
C13_Witness ==
    /\ call[1].op = "autoFillForm" /\ call[1].pc = "returned"
    /\ DOMAIN call[1].options.customFields = {<<"#", "c">>, <<"#", "z">>}
    /\ Len(call[1].values) = 2
    /\ \E n \in 1..2 :
          /\ call[1].formFields[n].selector.sel = <<"#", "c">>
          /\ call[1].formFields[n].type = "url"
          /\ call[1].formFields[n].pressEnterAfterFill
          /\ call[1].formFields[3 - n].type = "text"
          /\ ~call[1].formFields[3 - n].pressEnterAfterFill
    /\ Times(call[1].log, "press") = 1

\* the element the n-th descriptor of a call was detected from
Source(s, n) == page.children[s.sources[n]]

\* C14: an element whose runtime tag is select is classified SELECT, and one
\* whose tag is textarea TEXTAREA, whatever its declared type, name, id,
\* placeholder, aria-label and label are.
C14_TagOutranksSignals ==
    \A c \in Slots :
        LET s == call[c] IN
        (s.op = "autoFillForm" /\ s.options.customFields = NoCustomFields) =>
            \A n \in 1..Len(s.sources) :
                /\ Source(s, n).tag = <<"select">> => s.formFields[n].type = "select"
                /\ Source(s, n).tag = <<"textarea">> => s.formFields[n].type = "textarea"

\* a select whose declared type is EMAIL and whose name, id, placeholder and
\* label say phone has been classified SELECT
C14_Witness ==
    /\ call[1].op = "autoFillForm" /\ Len(call[1].sources) = 1
    /\ Source(call[1], 1).tag = <<"select">>
    /\ Source(call[1], 1).type = T_EMAIL
    /\ Source(call[1], 1).name = S_Phone
    /\ Source(call[1], 1).id = S_Phone
    /\ Source(call[1], 1).placeholder = S_Phone
    /\ Source(call[1], 1).label = S_Phone
    /\ call[1].formFields[1].type = "select"

\* C15: an element that is neither select nor textarea and whose declared
\* type equals, letter case apart, a key of the table is classified as the
\* category of that key, whatever its name, id, placeholder, aria-label and
\* label are.
C15_DeclaredTypeOutranksSignals ==
    \A c \in Slots :
        LET s == call[c] IN
        (s.op = "autoFillForm" /\ s.options.customFields = NoCustomFields) =>
            \A n \in 1..Len(s.sources) :
                Source(s, n).tag \notin {<<"select">>, <<"textarea">>} =>
                    LET declared == toLowerCase(Source(s, n).type) IN
                    \A k \in 1..Len(fieldTypeMappings) :
                        patternLower[k] = declared
                        => s.formFields[n].type = fieldTypeMappings[k][2]

\* an input whose declared type is EMAIL and whose name says zip and city has
\* been classified EMAIL
C15_Witness ==
    /\ call[1].op = "autoFillForm" /\ Len(call[1].sources) = 1
    /\ Source(call[1], 1).tag = <<"input">>
    /\ Source(call[1], 1).type = T_EMAIL
    /\ Source(call[1], 1).name = S_zipcity
    /\ Source(call[1], 1).id = S_Phone
    /\ call[1].formFields[1].type = "email"

\* the signals in the order the classifier reads them
Signals(el) == <<el.name, el.id, el.placeholder, el.ariaLabel, el.label>>

\* the categories of the table keys a signal contains, letter case apart
CategoriesIn(signal) ==
    LET lower == toLowerCase(signal) IN
    {fieldTypeMappings[k][2] :
        k \in {j \in 1..Len(fieldTypeMappings) : Includes(lower, patternLower[j])}}

\* what the claim lets the category be: one of the first signal that has a
\* key, TEXT if none has
BySignals(el, category) ==
    LET hits == {i \in 1..5 : CategoriesIn(Signals(el)[i]) # {}}
    IN  IF hits = {} THEN category = "text"
        ELSE category \in CategoriesIn(Signals(el)[CHOOSE i \in hits : \A j \in hits : i <= j])

DeclaredTypeIsKey(el) ==
    LET declared == toLowerCase(el.type) IN
    \E k \in 1..Len(fieldTypeMappings) : patternLower[k] = declared

\* C16: when the tag is neither select nor textarea and the declared type
\* matches no key of the table, the category is that of the first of name,
\* id, placeholder, aria-label, label that contains a key, letter case
\* apart, and TEXT if none does.
C16_FirstSignalDecides ==
    \A c \in Slots :
        LET s == call[c] IN
        (s.op = "autoFillForm" /\ s.options.customFields = NoCustomFields) =>
            \A n \in 1..Len(s.sources) :
                (/\ Source(s, n).tag \notin {<<"select">>, <<"textarea">>}
                 /\ ~DeclaredTypeIsKey(Source(s, n)))
                => BySignals(Source(s, n), s.formFields[n].type)

\* the part of C16 the code bears out: the same, for a declared type that is
\* not a property name the table inherits
C16_FirstSignalDecidesOwnKeys ==
    \A c \in Slots :
        LET s == call[c] IN
        (s.op = "autoFillForm" /\ s.options.customFields = NoCustomFields) =>
            \A n \in 1..Len(s.sources) :
                (/\ Source(s, n).tag \notin {<<"select">>, <<"textarea">>}
                 /\ ~DeclaredTypeIsKey(Source(s, n))
                 /\ toLowerCase(Source(s, n).type) \notin InheritedKeys)
                => BySignals(Source(s, n), s.formFields[n].type)

\* the config a fillField call was made with
FieldOf(s) == s.formFields[1]

\* C17: with a valueGenerator in the config, generation calls it exactly once
\* and hands its result back verbatim whatever the type is: no category value,
\* no query of the live options, min, max and options ignored; fillField
\* returns that value, and what the generator throws leaves fillField as it is,
\* before any interaction.
C17_ValueGeneratorWins ==
    \A c \in Slots :
        LET s == call[c] IN
        s.op = "fillField" /\ FieldOf(s).valueGenerator # {}
            /\ ~Truthy(FieldOf(s).locale) =>
            LET outcome == Value(FieldOf(s).valueGenerator) IN
            /\ s.generatorCalls = 1
            /\ \A n \in 1..Len(s.log) : s.log[n].op # "options"
            /\ outcome.throws =>
                  s.pc = "thrown" /\ s.err = "generation" /\ s.log = <<>> /\ s.result = {}
            /\ ~outcome.throws =>
                  /\ s.value = outcome.value
                  /\ s.err \in {"none", "interaction"}
                  /\ s.pc = "returned" => s.result = {outcome.value}

\* a SELECT config with options, min and max returned the number its
\* valueGenerator made
C17_Witness ==
    \E c \in Slots :
        LET s == call[c] IN
        /\ s.op = "fillField" /\ s.pc = "returned"
        /\ FieldOf(s).type = "select" /\ FieldOf(s).options # <<>>
        /\ FieldOf(s).valueGenerator # {}
        /\ s.result = {NumberValue(7)}

\* min ?? 1 and max ?? 100
OrElse(opt, default) == IF opt = {} THEN default ELSE Value(opt)

\* C18: a NUMBER config without a valueGenerator gets an integer r with
\* (min ?? 1) <= r <= (max ?? 100), for every min <= max; with min = max = 5
\* the value is exactly 5.
C18_NumberWithinBounds ==
    \A c \in Slots :
        LET s == call[c]
            min == OrElse(FieldOf(s).min, 1)
            max == OrElse(FieldOf(s).max, 100)
        IN  s.op = "fillField" /\ FieldOf(s).type = "number"
            /\ FieldOf(s).valueGenerator = {} /\ min <= max =>
               /\ s.err # "generation"
               /\ s.value.t = "number"
               /\ s.value.n \in Int
               /\ min <= s.value.n /\ s.value.n <= max
               /\ FieldOf(s).min = {5} /\ FieldOf(s).max = {5} => s.value.n = 5
               /\ s.pc = "returned" => s.result = {s.value}

\* fillField returned 5 for { min: 5, max: 5 }
C18_Witness ==
    \E c \in Slots :
        LET s == call[c] IN
        /\ s.op = "fillField" /\ s.pc = "returned"
        /\ FieldOf(s).type = "number" /\ FieldOf(s).valueGenerator = {}
        /\ FieldOf(s).min = {5} /\ FieldOf(s).max = {5}
        /\ s.result = {NumberValue(5)}
        /\ s.log[Len(s.log)].op = "fill" /\ s.log[Len(s.log)].arg = <<"5">>

\* the values of the options of a select that are enabled and not empty
EnabledValues(el) ==
    IF el.tag = <<"select">>
    THEN {v \in {el.options[n].value : n \in 1..Len(el.options)} :
             v # <<>> /\ \E n \in 1..Len(el.options) :
                            el.options[n].value = v /\ ~el.options[n].disabled}
    ELSE {}

\* C19: a SELECT config without a valueGenerator gets a member of its options
\* if it has any, and the live element is not queried; without options it
\* gets the value of an enabled option of the live element that has one, and
\* the empty string, without an exception, if there is no such option.
C19_SelectValue ==
    \A c \in Slots :
        LET s == call[c]
            options == FieldOf(s).options
        IN  s.op = "fillField" /\ FieldOf(s).type = "select"
            /\ FieldOf(s).valueGenerator = {} =>
               /\ s.err # "generation"
               /\ s.pc = "returned" => s.result = {s.value}
               /\ options # <<>> =>
                     /\ \E n \in 1..Len(options) : s.value = StringValue(options[n])
                     /\ \A n \in 1..Len(s.log) : s.log[n].op # "options"
               /\ options = <<>> =>
                     IF s.log = <<>> \/ ~s.log[1].ok
                     THEN s.value = NoValue /\ s.pc \in {"options", "thrown"}
                     ELSE /\ s.log[1].op = "options"
                          /\ \A n \in 2..Len(s.log) : s.log[n].op # "options"
                          /\ LET live == EnabledValues(page.children[s.log[1].el]) IN
                             IF live = {} THEN s.value = StringValue(<<>>)
                             ELSE s.value.t = "string" /\ s.value.s \in live

\* without options and with nothing to choose on the live select, fillField
\* returned the empty string
C19_Witness ==
    \E c \in Slots :
        LET s == call[c] IN
        /\ s.op = "fillField" /\ s.pc = "returned"
        /\ FieldOf(s).type = "select" /\ FieldOf(s).valueGenerator = {}
        /\ FieldOf(s).options = <<>>
        /\ page.children[s.log[1].el].tag = <<"select">>
        /\ EnabledValues(page.children[s.log[1].el]) = {}
        /\ s.result = {StringValue(<<>>)}

\* an interaction as the comparison sees it
Did(op, arg) == [op |-> op, arg |-> arg]

\* the fill technique for a value on a live element: read off the element's
\* tag and type attribute, the type of the value and filePath
Technique(el, value, filePath) ==
    LET type == IF el.tag = <<"input">> THEN toLowerCase(el.type) ELSE <<>> IN
    IF el.tag = <<"select">>
    THEN IF value.t = "string" THEN <<Did("selectOption", value.s)>> ELSE <<>>
    ELSE IF type \in {T_checkbox, T_radio}
    THEN IF value.t = "boolean"
         THEN <<Did(IF value.b THEN "check" ELSE "uncheck", <<>>)>>
         ELSE <<>>
    ELSE IF type = T_file /\ filePath # <<>>
    THEN <<Did("setInputFiles", filePath)>>
    ELSE <<Did("fill", String(value))>>

\* what applyValue does to an element for a value: nothing here reads the
\* type of the config
Interactions(el, value, filePath, click, press, blur) ==
    <<Did("getTagName", <<>>), Did("getInputType", <<>>)>>
    \o Technique(el, value, filePath)
    \o (IF click THEN <<Did("click", <<>>)>> ELSE <<>>)
    \o (IF press THEN <<Did("press", <<>>)>> ELSE <<>>)
    \o (IF blur THEN <<Did("blur", <<>>)>> ELSE <<>>)

IsApplied(e) == e.ok /\ e.op # "options"

\* the interactions of applyValue that a call's log holds
AppliedOf(s) ==
    LET applied == SelectSeq(s.log, IsApplied)
    IN  [n \in 1..Len(applied) |-> Did(applied[n].op, applied[n].arg)]

\* C20: applyValue picks the fill technique from the live element's tag and
\* input type (and the type of the value and filePath), never from the type of
\* the config: whatever the type, the interactions with the element are the
\* ones the element, the value and the rest of the config determine, so
\* configs that differ only in type do the same to the same element with the
\* same value.
C20_TechniqueFromLiveElement ==
    \A c \in Slots :
        LET s == call[c] IN
        s.op = "fillField" /\ s.value # NoValue /\ FieldTargets(c) # {} =>
            LET fieldConfig == FieldOf(s)
                expected == Interactions(page.children[FieldTarget(c)], s.value,
                                         fieldConfig.filePath, fieldConfig.clickAfterFill,
                                         fieldConfig.pressEnterAfterFill,
                                         fieldConfig.blurAfterFill)
                applied == AppliedOf(s)
            IN  /\ Len(applied) <= Len(expected)
                /\ applied = SubSeq(expected, 1, Len(applied))
                /\ s.pc = "returned" => applied = expected
                /\ \A n \in 1..Len(s.log) : s.log[n].ok => s.log[n].el = FieldTarget(c)

\* a CHECKBOX config was applied to a text input: its boolean was typed in
C20_Witness ==
    \E c \in Slots :
        LET s == call[c] IN
        /\ s.op = "fillField" /\ s.pc = "returned"
        /\ FieldOf(s).type = "checkbox" /\ FieldOf(s).valueGenerator = {}
        /\ page.children[s.log[1].el].tag = <<"input">>
        /\ page.children[s.log[1].el].type = T_text
        /\ AppliedOf(s)[3] = Did("fill", <<"t", "r", "u", "e">>)

IsTechnique(e) == e.ok /\ e.op \in ApplyOps

\* the value applications a call's log holds
TechniqueOf(s) ==
    LET applied == SelectSeq(s.log, IsTechnique)
    IN  [n \in 1..Len(applied) |-> Did(applied[n].op, applied[n].arg)]

\* the dispatch as it is claimed: only a checkbox or radio with a value that
\* is no boolean is left alone
ClaimedDispatch(el, value, filePath) ==
    LET type == IF el.tag = <<"input">> THEN toLowerCase(el.type) ELSE <<>> IN
    IF el.tag = <<"select">> /\ value.t = "string"
    THEN <<Did("selectOption", value.s)>>
    ELSE IF type \in {T_checkbox, T_radio}
    THEN IF value.t = "boolean"
         THEN <<Did(IF value.b THEN "check" ELSE "uncheck", <<>>)>>
         ELSE <<>>
    ELSE IF type = T_file /\ filePath # <<>>
    THEN <<Did("setInputFiles", filePath)>>
    ELSE <<Did("fill", String(value))>>

\* C21: applyValue selects the option for a dropdown and a string, checks or
\* unchecks a checkbox or radio for a boolean and leaves it alone for any other
\* value, sets the files of a file input with a filePath, and in every
\* remaining case, a dropdown with a value that is no string included, fills
\* in String(value); one branch runs per call.
C21_DispatchFillsTheRest ==
    \A c \in Slots :
        LET s == call[c] IN
        s.op = "fillField" /\ s.pc = "returned" =>
            TechniqueOf(s) = ClaimedDispatch(page.children[FieldTarget(c)], s.value,
                                             FieldOf(s).filePath)

IsPost(e) == e.ok /\ e.op \in {"click", "press", "blur"}

\* the post-actions a call's log holds
PostOf(s) ==
    LET post == SelectSeq(s.log, IsPost) IN [n \in 1..Len(post) |-> post[n].op]

\* C22: after the value is applied the post-actions run in the order click,
\* press Enter, blur; each runs exactly when its own flag is set, whatever the
\* other flags and the technique of the value application are, and none runs
\* before the value application.
C22_PostActionsInOrder ==
    \A c \in Slots :
        LET s == call[c] IN
        s.op = "fillField" /\ s.value # NoValue /\ FieldTargets(c) # {} =>
            LET fieldConfig == FieldOf(s)
                expected == (IF fieldConfig.clickAfterFill THEN <<"click">> ELSE <<>>)
                            \o (IF fieldConfig.pressEnterAfterFill THEN <<"press">> ELSE <<>>)
                            \o (IF fieldConfig.blurAfterFill THEN <<"blur">> ELSE <<>>)
                technique == Technique(page.children[FieldTarget(c)], s.value,
                                       fieldConfig.filePath)
                post == PostOf(s)
            IN  /\ Len(post) <= Len(expected)
                /\ post = SubSeq(expected, 1, Len(post))
                /\ s.pc = "returned" => post = expected
                /\ \A n \in 1..Len(s.log) :
                      IsPost(s.log[n]) =>
                          /\ n > 2 + Len(technique)
                          /\ TechniqueOf([s EXCEPT !.log = SubSeq(s.log, 1, n - 1)]) = technique

\* Enter and then blur, without a click, followed the selectOption of a
\* dropdown
C22_Witness ==
    \E c \in Slots :
        LET s == call[c] IN
        /\ s.op = "fillField" /\ s.pc = "returned"
        /\ ~FieldOf(s).clickAfterFill
        /\ page.children[FieldTarget(c)].tag = <<"select">>
        /\ s.value = StringValue(<<"o">>)
        /\ AppliedOf(s) = <<Did("getTagName", <<>>), Did("getInputType", <<>>),
                            Did("selectOption", <<"o">>), Did("press", <<>>),
                            Did("blur", <<>>)>>

\* C23: fillForm([]) returns an empty map, never calls fillField and performs
\* no element interaction; the engine's generator is the one it was.
C23_EmptyListIsNoOp ==
    \A c \in Slots :
        LET s == call[c] IN
        s.op = "fillForm" /\ s.formFields = <<>> =>
            /\ s.pc = "returned"
            /\ s.result = {<<>>}
            /\ s.log = <<>>
            /\ s.idx = 0 /\ s.values = <<>> /\ s.generatorCalls = 0
            /\ faker = s.pre
            /\ \A j \in 1..Len(domValue) : domValue[j] = Untouched

\* fillForm([]) has returned on an engine whose generator is not the one of
\* its construction
C23_Witness ==
    \E c \in Slots :
        /\ call[c].op = "fillForm" /\ call[c].formFields = <<>>
        /\ call[c].pc = "returned" /\ call[c].result = {<<>>}
        /\ faker # ctorFaker

\* C24: downloadAndVerifyPdfSize downloads, then checks that the file exists,
\* then checks its size, in that order; it returns the downloaded path exactly
\* when the file exists and its size is at least minSizeBytes, throws 'PDF file
\* not found', without reading the size, when the file does not exist, and
\* throws the size error when the size is below minSizeBytes.
C24_DownloadExistsSize ==
    LET downloaded == \E n \in 1..Len(pdf.log) : pdf.log[n] \in {"saveAs", "path"}
        sized == pdf.exists = {TRUE} /\ pdf.fileSize # {}
    IN  /\ \A n \in 1..Len(pdf.log) :
              /\ pdf.log[n] = "access" =>
                    n > 1 /\ pdf.log[n - 1] \in {"saveAs", "path"}
              /\ pdf.log[n] = "stat" => n > 1 /\ pdf.log[n - 1] = "access"
              /\ pdf.log[n] \in {"access", "stat"} => n = Len(pdf.log) \/ pdf.log[n] = "access"
        /\ pdf.pc = "returned" <=>
              sized /\ \E size \in pdf.fileSize : size >= pdf.minSizeBytes
        /\ pdf.pc = "returned" => downloaded /\ pdf.result = pdf.filePath /\ pdf.filePath # {}
        /\ pdf.exists = {FALSE} =>
              /\ pdf.pc = "thrown" /\ pdf.err = "PDF file not found"
              /\ pdf.log[Len(pdf.log)] = "access"
        /\ sized /\ (\E size \in pdf.fileSize : size < pdf.minSizeBytes) =>
              pdf.pc = "thrown" /\ pdf.err = "PDF file size is less than expected minimum"
        /\ pdf.err = "PDF file not found" => pdf.exists = {FALSE}
        /\ pdf.err = "PDF file size is less than expected minimum" =>
              sized /\ \E size \in pdf.fileSize : size < pdf.minSizeBytes

\* a file of exactly minSizeBytes, saved under downloadPath, was accepted
C24_Witness ==
    /\ pdf.pc = "returned"
    /\ pdf.minSizeBytes = 2 /\ pdf.fileSize = {2}
    /\ pdf.result = {<<"out", "/", "doc.pdf">>}
    /\ pdf.log = <<"click", "download", "mkdir", "saveAs", "access", "stat">>

\* the table positions of the keys a signal contains, letter case apart
KeysIn(signal) ==
    LET lower == toLowerCase(signal) IN
    {k \in 1..Len(fieldTypeMappings) : Includes(lower, patternLower[k])}

\* the first of name, id, placeholder, aria-label, label that contains a key
\* (<<>> if none does)
DecidingSignal(el) ==
    LET hits == {i \in 1..5 : KeysIn(Signals(el)[i]) # {}}
    IN  IF hits = {} THEN <<>>
        ELSE Signals(el)[CHOOSE i \in hits : \A j \in hits : i <= j]

\* C25: when the deciding signal contains several keys of the table, the
\* category is that of the one that comes first in the table's declaration
\* order, wherever the keys occur in the signal.
C25_FirstKeyInTableOrder ==
    \A c \in Slots :
        LET s == call[c] IN
        (s.op = "autoFillForm" /\ s.options.customFields = NoCustomFields) =>
            \A n \in 1..Len(s.sources) :
                LET el == Source(s, n)
                    keys == KeysIn(DecidingSignal(el))
                IN  (/\ el.tag \notin {<<"select">>, <<"textarea">>}
                     /\ ~DeclaredTypeIsKey(el)
                     /\ toLowerCase(el.type) \notin InheritedKeys
                     /\ keys # {})
                    => \E k \in keys :
                          /\ \A j \in keys : k <= j
                          /\ s.formFields[n].type = fieldTypeMappings[k][2]

\* name "phone_number" with no declared type: 'number' is declared before
\* 'phone' and decides, although 'phone' comes first in the string
C25_Witness ==
    \E c \in Slots :
        LET s == call[c] IN
        /\ s.op = "autoFillForm" /\ Len(s.sources) = 1
        /\ Source(s, 1).type = <<>>
        /\ Source(s, 1).name = <<"p", "h", "o", "n", "e", "_", "n", "u", "m", "b", "e", "r">>
        /\ Cardinality(KeysIn(Source(s, 1).name)) = 2
        /\ s.formFields[1].type = "number"

\* C26: the table checks more specific keys no later than more general ones:
\* where one key is a proper substring of another the longer one comes no
\* later in iteration order, so that every key is the deciding key of some
\* signal (of the signal that is the key itself, to begin with).
C26_SpecificKeysFirst ==
    /\ \A j, k \in 1..Len(fieldTypeMappings) :
          (j # k /\ Includes(patternLower[j], patternLower[k])) => j <= k
    /\ \A c \in Slots :
          LET s == call[c] IN
          s.op = "autoFillForm" =>
              \A n \in 1..Len(s.sources) :
                  \A k \in 1..Len(fieldTypeMappings) :
                      toLowerCase(Source(s, n).name) = patternLower[k]
                      => FirstMatchEntry(Source(s, n).name) = k

\* the element selector an element was found by
KindOf(el) == fieldSelectors[CHOOSE k \in 1..Len(fieldSelectors) : MatchesKind(fieldSelectors[k], el)]

\* the 1-based position of child j among the children of its kind
PositionInKind(pg, j) ==
    Cardinality({m \in 1..j : MatchesKind(KindOf(pg.children[j]), pg.children[m])})

\* C27: the Scanner gives a descriptor the selector '#<id>' if the element has
\* an id, else '<kind>[name="<name>"]' if it has a name, else the positional
\* '<formSelector> <kind>:nth-child(i)', i the element's 1-based position
\* among the matches of its kind; the selector is a string, the type the
\* classified one, and there is no valueGenerator.
C27_SelectorByPreference ==
    \A c \in Slots :
        LET s == call[c] IN
        (s.op = "autoFillForm" /\ s.options.customFields = NoCustomFields) =>
            \A n \in 1..Len(s.sources) :
                LET el == Source(s, n)
                    fieldConfig == s.formFields[n]
                    i == PositionInKind(page, s.sources[n])
                IN  /\ fieldConfig.selector.isString
                    /\ fieldConfig.selector.sel =
                          IF el.id # <<>> THEN <<"#">> \o el.id
                          ELSE IF el.name # <<>>
                          THEN KindOf(el) \o <<"[name=\"">> \o el.name \o <<"\"]">>
                          ELSE s.options.formSelector \o <<" ">> \o KindOf(el)
                               \o <<":nth-child(">> \o NumStr(i) \o <<")">>
                    /\ fieldConfig.type = determineFieldType(el.tag, el.type, el.name, el.id,
                                                             el.placeholder, el.ariaLabel, el.label)
                    /\ fieldConfig.valueGenerator = {}

\* a form with an input that has an id and a name, a radio button with a name
\* only and, after them, an input with neither: '#a', the name selector and
\* the third position among the inputs
C27_Witness ==
    \E c \in Slots :
        LET s == call[c] IN
        /\ s.op = "autoFillForm" /\ s.sources = <<1, 2, 3>>
        /\ s.formFields[1].selector.sel = <<"#", "a">> /\ Source(s, 1).name = <<"n">>
        /\ s.formFields[2].selector.sel = NameSelector(InputSelector, <<"n">>)
        /\ s.formFields[3].selector.sel = NthChildSelector(<<"form">>, InputSelector, 2)

\* C28: the descriptors of one Scanner run have pairwise distinct selectors,
\* also for elements that share a name and have no id and for elements with
\* the same id, so that the result map of autoFillForm has one entry per field.
C28_SelectorsDistinct ==
    \A c \in Slots :
        LET s == call[c] IN
        (s.op = "autoFillForm" /\ s.options.customFields = NoCustomFields) =>
            /\ Cardinality({s.formFields[n].selector.sel : n \in 1..Len(s.formFields)})
                  = Len(s.formFields)
            /\ s.pc = "returned" =>
                  \A map \in s.result : Cardinality(DOMAIN map) = Len(s.formFields)

\* C29: for an element with neither id nor name the positional selector of
\* the Scanner designates, when fillField resolves it, the element the
\* descriptor was built from, whatever other children sit between the matched
\* elements: the locator finds that element and only it, and the field's
\* interactions are with it.
C29_PositionalSelectorFindsSource ==
    \A c \in Slots :
        LET s == call[c] IN
        (s.op = "autoFillForm" /\ s.options.customFields = NoCustomFields) =>
            \A n \in 1..Len(s.sources) :
                (Source(s, n).id = <<>> /\ Source(s, n).name = <<>>) =>
                    /\ Resolve(page, s.formFields[n].selector.sel) = {s.sources[n]}
                    /\ \A m \in 1..Len(s.log) :
                          (s.log[m].ok /\ s.log[m].field = n) => s.log[m].el = s.sources[n]

\* the string selectors of a list are pairwise distinct and none has the form
\* 'field-<n>'
KeysCannotCollide(fieldsConfig) ==
    /\ StringSelectorsDistinct(fieldsConfig)
    /\ \A n \in 1..Len(fieldsConfig) :
          fieldsConfig[n].selector.isString
          => ~IsSyntheticKey(fieldsConfig[n].selector.sel)

\* C30: in fillForm, if the string selectors of the list are pairwise
\* distinct and none has the form 'field-<n>', no entry is ever overwritten:
\* while the list is processed the map has one entry per config processed so
\* far, and the map returned has exactly as many entries as the list has
\* configs.
C30_OneEntryPerConfig ==
    \A c \in Slots :
        LET s == call[c] IN
        (s.op = "fillForm" /\ KeysCannotCollide(s.formFields))
        => /\ Cardinality(DOMAIN s.fieldValues) = Len(s.values)
           /\ s.pc = "returned" =>
                 \A map \in s.result : Cardinality(DOMAIN map) = Len(s.formFields)

\* fillForm has returned for a list of three configs, two distinct string
\* selectors and a handle, with a map of three entries
C30_Witness ==
    /\ call[1].op = "fillForm" /\ call[1].pc = "returned"
    /\ Len(call[1].formFields) = 3
    /\ KeysCannotCollide(call[1].formFields)
    /\ \E m, n \in 1..3 :
          /\ m # n
          /\ call[1].formFields[m].selector.isString
          /\ call[1].formFields[n].selector.isString
    /\ \E n \in 1..3 : ~call[1].formFields[n].selector.isString
    /\ \E map \in call[1].result : Cardinality(DOMAIN map) = 3

=============================================================================
